---- MODULE Spec2Model ----
(***************************************************************************)
(* The tool-calling evaluation harness: the simulated environment          *)
(* (src/src/tools.py), the dispatcher and the scripted run                 *)
(* (src/src/harness.py), the scoring engine (src/src/scoring.py) and the   *)
(* ground-truth driver (src/run_eval.py), and the live run                 *)
(* (Harness.run_llm) with its driver.                                      *)
(*                                                                         *)
(* Python values.  A str is a sequence of atoms: chunks of characters the  *)
(* model never splits ("argument error" is one atom).  Concatenation and   *)
(* f-string formatting are \o, and `a in b` on strings is "a is a          *)
(* contiguous subsequence of b".  Optional[x] is <<>> (None) or <<x>>.  A  *)
(* dict is a function; d.get(k) is Get(d, k).  time.time() is the logical  *)
(* time of the dispatch (the number of the call within the run).  Metric   *)
(* values are integers in the metric's smallest unit (error_rate in        *)
(* 1/1000, latency in ms, qps in 1/s).  hash() of a str is salted per      *)
(* interpreter process (PYTHONHASHSEED): the salt is hashseed, chosen when *)
(* the process starts.                                                     *)
(***************************************************************************)
EXTENDS Integers, Sequences, FiniteSets, TLC

VARIABLES env, trace, pc, scenario, final, report, hashseed, live

vars == <<env, trace, pc, scenario, final, report, hashseed, live>>

(* ------------------------------ bounds --------------------------------- *)

\* the max_steps the scripted run of Spec is given (the program's default is
\* DefaultMaxSteps)
MaxSteps == 2

\* longest scripted sequence replayed to reach the environments that
\* check_acceptance and check_technical_success are applied to
MaxAcceptScript == 2

\* longest scripted sequence replayed to produce the traces that
\* partial_credit is applied to
MaxTraceScript == 3

\* longest scripted sequence replayed to produce the runs that are scored as
\* a whole
MaxScoreScript == 4

\* the max_steps the live run of SpecLive is given (the program's default is
\* DefaultMaxSteps)
MaxLiveSteps == 2

\* run_sequence's and run_llm's default max_steps, which the drivers leave as
\* it is
DefaultMaxSteps == 8

(* --------------------------- Python values ----------------------------- *)

None == <<>>

Some(x) == <<x>>

EmptyDict == [k \in {} |-> k]

Get(d, k) == IF k \in DOMAIN d THEN Some(d[k]) ELSE None

GetOr(d, k, dflt) == IF k \in DOMAIN d THEN d[k] ELSE dflt

Put(d, k, v) == [x \in (DOMAIN d) \cup {k} |-> IF x = k THEN v ELSE d[x]]

\* `sub in s` on two strs
Contains(sub, s) ==
    \E i \in 0..(Len(s) - Len(sub)) : SubSeq(s, i + 1, i + Len(sub)) = sub

\* str(x) of an Optional[str]
PyStr(opt) == IF opt = None THEN <<"None">> ELSE opt[1]

\* str(n) of an int
IntStr(n) == <<ToString(n)>>

\* bool(v) of a JSON scalar of the fixture
PyBool(v) == IF v.t = "bool" THEN v.b ELSE v.n # 0

\* truthiness of an Optional[str] / Optional[dict]: None, "" and {} are falsy
Truthy(opt) == opt # None /\ DOMAIN opt[1] # {}

(* ------------------------- names of the fixtures ----------------------- *)

checkout == <<"checkout-service">>

cart == <<"cart-service">>

ghost == <<"ghost-service">>

prod == <<"prod">>

dev == <<"dev">>

\* a name that happens to contain the words the scorer looks for
injected == <<"argument error">>

(* ------------------------------ tools.py ------------------------------- *)

Deployment(service, namespace, replicas) ==
    [service |-> service, namespace |-> namespace, replicas |-> replicas,
     restarted_at |-> None]

Ticket == [status |-> <<"open">>, note |-> <<>>]

\* deployments_order is the insertion order of the keys of the deployments
\* dict, the order its items() are iterated in
EnvState ==
    [deployments |-> EmptyDict, deployments_order |-> <<>>, feature_flags |-> EmptyDict,
     ticket |-> Ticket, incident_log |-> <<>>, seed |-> 42]

\* ToolResult(ok=True, data=...).model_dump()
ToolOk(data) == [ok |-> TRUE, data |-> Some(data), error |-> None]

\* ToolResult(ok=False, error=...).model_dump()
ToolFail(error) == [ok |-> FALSE, data |-> None, error |-> Some(error)]

Max(a, b) == IF a >= b THEN a ELSE b

RECURSIVE Xor(_, _)
\* a ^ b on non-negative ints
Xor(a, b) ==
    IF a = 0 THEN b
    ELSE IF b = 0 THEN a
    ELSE (((a % 2) + (b % 2)) % 2) + (2 * Xor(a \div 2, b \div 2))

\* the per-process salts of str hashing the interpreter may start with
HashSeeds == {0, 9}

\* the unsalted part of hash() of one atom
AtomHash(a) ==
    CASE a = "checkout-service" -> 11
      [] a = "cart-service" -> 23
      [] a = "prod" -> 5
      [] a = "error_rate" -> 7
      [] a = "latency_p95" -> 13
      [] a = "qps" -> 17
      [] a = ":" -> 1
      [] OTHER -> 3

RECURSIVE PyHash(_, _)
\* hash(s) of a str in a process whose salt is salt
PyHash(salt, s) ==
    IF s = <<>> THEN salt ELSE ((31 * PyHash(salt, Tail(s))) + AtomHash(Head(s))) % 1024

\* hash(key) in this process
hash(key) == PyHash(hashseed, key)

\* random.Random(hash(key) ^ env.seed): the generator is determined by h
\* (hash(key) is evaluated once)
_rng(e, key) == CHOOSE h \in {Xor(x, e.seed) : x \in {hash(key)}} : TRUE

\* rnd.uniform(-a, a), first draw of the generator h, in integer units
Uniform(h, a) == (h % (2 * a + 1)) - a

\* the data metrics_query computes for a deployment of the given replicas
\* from the generator rnd: the value and its status tier
Measure(metric, minutes, replicas, rnd) ==
    LET value ==
          IF metric = <<"error_rate">>
          THEN Max(0, Max(5, 60 - 6 * replicas) + Uniform(rnd, 3))
          ELSE IF metric = <<"latency_p95">>
          THEN Max(0, Max(80, 300 - 20 * replicas) + Uniform(rnd, 10))
          ELSE Max(0, 50 * replicas + Uniform(rnd, 10))
        status ==
          IF metric = <<"error_rate">>
          THEN (IF value < 15 THEN <<"good">>
                ELSE IF value < 25 THEN <<"acceptable">> ELSE <<"concerning">>)
          ELSE IF metric = <<"latency_p95">>
          THEN (IF value < 120 THEN <<"good">>
                ELSE IF value < 200 THEN <<"acceptable">> ELSE <<"concerning">>)
          ELSE <<"info">>
    IN [metric |-> metric, minutes |-> minutes, value |-> value, status |-> status]

\* the key of the generator: f"{service}:{namespace}:{metric}:{minutes}"
RngKey(service, namespace, metric, minutes) ==
    service \o <<":">> \o namespace \o <<":">> \o metric \o <<":">> \o IntStr(minutes)

metrics_query(e, service, metric, minutes, namespace) ==
    IF metric \notin {<<"latency_p95">>, <<"error_rate">>, <<"qps">>}
    THEN [env |-> e, res |-> ToolFail(<<"invalid metric: ">> \o metric)]
    ELSE IF minutes <= 0 \/ minutes > 120
    THEN [env |-> e, res |-> ToolFail(<<"minutes out of range: ">> \o IntStr(minutes))]
    ELSE IF <<service, namespace>> \notin DOMAIN e.deployments
    THEN [env |-> e,
          res |-> ToolFail(<<"unknown deployment: ">> \o service \o <<" in ">> \o namespace)]
    ELSE
      LET dep == e.deployments[<<service, namespace>>]
          \* rnd = _rng(env, key), evaluated once
          after == {[env |-> e, res |-> ToolOk(Measure(metric, minutes, dep.replicas, rnd))] :
                      rnd \in {_rng(e, RngKey(service, namespace, metric, minutes))}}
      IN CHOOSE out \in after : TRUE

\* k8s_scale, had its range check let a scale to zero through
k8s_scale_from_zero(e, service, replicas, namespace) ==
    IF replicas < 0 \/ replicas > 100
    THEN [env |-> e, res |-> ToolFail(<<"replicas out of range: ">> \o IntStr(replicas))]
    ELSE IF <<service, namespace>> \notin DOMAIN e.deployments
    THEN [env |-> e,
          res |-> ToolFail(<<"unknown deployment: ">> \o service \o <<" in ">> \o namespace)]
    ELSE [env |-> [e EXCEPT !.deployments[<<service, namespace>>].replicas = replicas],
          res |-> ToolOk([service |-> service, namespace |-> namespace,
                          replicas |-> replicas])]

\* k8s_scale, had it matched the deployments to scale by namespace alone
k8s_scale_by_namespace(e, service, replicas, namespace) ==
    IF replicas < 1 \/ replicas > 100
    THEN [env |-> e, res |-> ToolFail(<<"replicas out of range: ">> \o IntStr(replicas))]
    ELSE IF <<service, namespace>> \notin DOMAIN e.deployments
    THEN [env |-> e,
          res |-> ToolFail(<<"unknown deployment: ">> \o service \o <<" in ">> \o namespace)]
    ELSE [env |-> [e EXCEPT !.deployments =
                     [k \in DOMAIN e.deployments |->
                        IF k[2] = namespace
                        THEN [e.deployments[k] EXCEPT !.replicas = replicas]
                        ELSE e.deployments[k]]],
          res |-> ToolOk([service |-> service, namespace |-> namespace,
                          replicas |-> replicas])]

k8s_scale(e, service, replicas, namespace) ==
    IF replicas < 1 \/ replicas > 100
    THEN [env |-> e, res |-> ToolFail(<<"replicas out of range: ">> \o IntStr(replicas))]
    ELSE IF <<service, namespace>> \notin DOMAIN e.deployments
    THEN [env |-> e,
          res |-> ToolFail(<<"unknown deployment: ">> \o service \o <<" in ">> \o namespace)]
    ELSE [env |-> [e EXCEPT !.deployments[<<service, namespace>>].replicas = replicas],
          res |-> ToolOk([service |-> service, namespace |-> namespace,
                          replicas |-> replicas])]

\* k8s_restart, had the restart brought the deployment back to one replica
k8s_restart_resetting_replicas(e, service, namespace, now) ==
    IF <<service, namespace>> \notin DOMAIN e.deployments
    THEN [env |-> e,
          res |-> ToolFail(<<"unknown deployment: ">> \o service \o <<" in ">> \o namespace)]
    ELSE [env |-> [e EXCEPT !.deployments[<<service, namespace>>] =
                     [@ EXCEPT !.restarted_at = Some(now), !.replicas = 1]],
          res |-> ToolOk([service |-> service, namespace |-> namespace,
                          restarted_at |-> Some(now)])]

k8s_restart(e, service, namespace, now) ==
    IF <<service, namespace>> \notin DOMAIN e.deployments
    THEN [env |-> e,
          res |-> ToolFail(<<"unknown deployment: ">> \o service \o <<" in ">> \o namespace)]
    ELSE [env |-> [e EXCEPT !.deployments[<<service, namespace>>].restarted_at = Some(now)],
          res |-> ToolOk([service |-> service, namespace |-> namespace,
                          restarted_at |-> Some(now)])]

feature_flag_set(e, flag, enabled) ==
    [env |-> [e EXCEPT !.feature_flags = Put(e.feature_flags, flag, enabled)],
     res |-> ToolOk([flag |-> flag, enabled |-> enabled])]

\* incident_log, had it appended the entry before it checked the severity
incident_log_append_first(e, message, severity, now) ==
    LET entry == [ts |-> now, severity |-> severity, message |-> message]
        appended == [e EXCEPT !.incident_log = Append(e.incident_log, entry)]
    IN IF severity \notin {<<"info">>, <<"warning">>, <<"critical">>}
       THEN [env |-> appended, res |-> ToolFail(<<"invalid severity: ">> \o severity)]
       ELSE [env |-> appended, res |-> ToolOk(entry)]

\* incident_log, had it put the newest entry first
incident_log_newest_first(e, message, severity, now) ==
    IF severity \notin {<<"info">>, <<"warning">>, <<"critical">>}
    THEN [env |-> e, res |-> ToolFail(<<"invalid severity: ">> \o severity)]
    ELSE LET entry == [ts |-> now, severity |-> severity, message |-> message]
         IN [env |-> [e EXCEPT !.incident_log = <<entry>> \o e.incident_log],
             res |-> ToolOk(entry)]

incident_log(e, message, severity, now) ==
    IF severity \notin {<<"info">>, <<"warning">>, <<"critical">>}
    THEN [env |-> e, res |-> ToolFail(<<"invalid severity: ">> \o severity)]
    ELSE LET entry == [ts |-> now, severity |-> severity, message |-> message]
         IN [env |-> [e EXCEPT !.incident_log = Append(e.incident_log, entry)],
             res |-> ToolOk(entry)]

\* ticket_update, had it recorded the note and left the status as it was
ticket_update_note_only(e, status, note) ==
    IF status \notin {<<"open">>, <<"investigating">>, <<"mitigated">>, <<"resolved">>}
    THEN [env |-> e, res |-> ToolFail(<<"invalid status: ">> \o status)]
    ELSE [env |-> [e EXCEPT !.ticket.note = note],
          res |-> ToolOk([status |-> status, note |-> note])]

ticket_update(e, status, note) ==
    IF status \notin {<<"open">>, <<"investigating">>, <<"mitigated">>, <<"resolved">>}
    THEN [env |-> e, res |-> ToolFail(<<"invalid status: ">> \o status)]
    ELSE [env |-> [e EXCEPT !.ticket = [status |-> status, note |-> note]],
          res |-> ToolOk([status |-> status, note |-> note])]

\* the registry: each tool's name and the keyword parameters its function takes
\* besides env
TOOL_REGISTRY ==
    (<<"metrics_query">> :> {"service", "metric", "minutes", "namespace"})
    @@ (<<"k8s_scale">> :> {"service", "replicas", "namespace"})
    @@ (<<"k8s_restart">> :> {"service", "namespace"})
    @@ (<<"feature_flag_set">> :> {"flag", "enabled"})
    @@ (<<"incident_log">> :> {"message", "severity"})
    @@ (<<"ticket_update">> :> {"status", "note"})

(* ----------------------------- harness.py ------------------------------ *)

RECURSIVE BuildDeployments(_, _)
\* the loop over initial_state["deployments"]: a later item overwrites an
\* earlier one with the same key
BuildDeployments(items, deps) ==
    IF items = <<>> THEN deps
    ELSE LET item == Head(items)
         IN BuildDeployments(Tail(items),
                Put(deps, <<item.service, item.namespace>>,
                    Deployment(item.service, item.namespace,
                               GetOr(item, "replicas", 1))))

RECURSIVE KeyOrder(_, _)
\* the order of the keys that loop leaves: an assignment to a key the dict
\* holds keeps the key's place
KeyOrder(items, keys) ==
    IF items = <<>> THEN keys
    ELSE LET key == <<Head(items).service, Head(items).namespace>>
         IN KeyOrder(Tail(items),
                     IF \E i \in 1..Len(keys) : keys[i] = key THEN keys
                     ELSE Append(keys, key))

build_env(initial_state) ==
    LET flags == GetOr(initial_state, "feature_flags", EmptyDict)
    IN [EnvState EXCEPT
          !.deployments = BuildDeployments(GetOr(initial_state, "deployments", <<>>),
                                           EmptyDict),
          !.deployments_order = KeyOrder(GetOr(initial_state, "deployments", <<>>), <<>>),
          !.feature_flags = [k \in DOMAIN flags |-> PyBool(flags[k])],
          !.ticket = IF "ticket" \in DOMAIN initial_state
                     THEN [status |-> GetOr(initial_state.ticket, "status", Ticket.status),
                           note |-> GetOr(initial_state.ticket, "note", Ticket.note)]
                     ELSE Ticket]

\* fn(env=env, **call.arguments) raises TypeError when the keywords given are
\* not exactly the function's parameters (one missing, one unexpected, or env
\* given twice)
exec_tool(e, call, now) ==
    LET a == call.arguments IN
    IF call.name \notin DOMAIN TOOL_REGISTRY
    THEN [env |-> e, res |-> [ok |-> FALSE, error |-> Some(<<"unknown tool: ">> \o call.name)]]
    ELSE IF DOMAIN a # TOOL_REGISTRY[call.name]
    THEN [env |-> e,
          res |-> [ok |-> FALSE,
                   error |-> Some(<<"argument error", ": ", "TypeError">>)]]
    ELSE CASE call.name = <<"metrics_query">> ->
                metrics_query(e, a.service, a.metric, a.minutes, a.namespace)
           [] call.name = <<"k8s_scale">> ->
                k8s_scale(e, a.service, a.replicas, a.namespace)
           [] call.name = <<"k8s_restart">> ->
                k8s_restart(e, a.service, a.namespace, now)
           [] call.name = <<"feature_flag_set">> ->
                feature_flag_set(e, a.flag, a.enabled)
           [] call.name = <<"incident_log">> ->
                incident_log(e, a.message, a.severity, now)
           [] call.name = <<"ticket_update">> ->
                ticket_update(e, a.status, a.note)

RECURSIVE RunLoop(_, _, _, _, _)
\* the loop of run_sequence from index i on
RunLoop(e, sequence, max_steps, i, tr) ==
    IF i >= Len(sequence) \/ i >= max_steps THEN [env |-> e, trace |-> tr]
    ELSE LET call == sequence[i + 1]
             \* result = exec_tool(env, call), evaluated once
             after == {RunLoop(r.env, sequence, max_steps, i + 1,
                               Append(tr, [step |-> i + 1, call |-> call, result |-> r.res])) :
                         r \in {exec_tool(e, call, i + 1)}}
         IN CHOOSE out \in after : TRUE

\* the `final` snapshot of a run; {f"{svc}:{ns}": dep.replicas ...}: of the
\* items that format to the same string the last one iterated stays
Snapshot(e) ==
    LET order == e.deployments_order
        KeyOf(d) == d[1] \o <<":">> \o d[2]
        Last(k) ==
          order[CHOOSE i \in 1..Len(order) :
                   /\ KeyOf(order[i]) = k
                   /\ \A j \in (i + 1)..Len(order) : KeyOf(order[j]) # k]
    IN [deployments |->
          [k \in {KeyOf(d) : d \in DOMAIN e.deployments} |->
             e.deployments[Last(k)].replicas],
        ticket |-> e.ticket,
        feature_flags |-> e.feature_flags,
        incident_log |-> e.incident_log]

\* Harness.run_sequence as a function: the environment it leaves and the
\* ExecutionTrace it returns
run_sequence(e, sequence, max_steps) ==
    LET r == RunLoop(e, sequence, max_steps, 0, <<>>)
    IN [env |-> r.env, trace |-> [tool_calls |-> r.trace, final |-> Snapshot(r.env)]]

(* ----------------------------- scoring.py ------------------------------ *)

\* check_acceptance, had it left the ticket status out
check_acceptance_without_ticket(e, criteria) ==
    LET dep_req == Get(criteria, "deployment")
        svc == Get(dep_req[1], "service")
        ns == Get(dep_req[1], "namespace")
        gte == Get(dep_req[1], "replicas_gte")
        st1 ==
          IF ~Truthy(dep_req) THEN [ok |-> TRUE, reasons |-> <<>>]
          ELSE IF svc = None \/ ns = None \/ <<PyStr(svc), PyStr(ns)>> \notin DOMAIN e.deployments
          THEN [ok |-> FALSE,
                reasons |-> << <<"missing deployment ">> \o PyStr(svc) \o <<":">> \o PyStr(ns) >>]
          ELSE LET reps == e.deployments[<<svc[1], ns[1]>>].replicas
               IN IF gte # None /\ reps < gte[1]
                  THEN [ok |-> FALSE,
                        reasons |-> << <<"replicas ">> \o IntStr(reps) \o <<" < ">> \o IntStr(gte[1]) >>]
                  ELSE [ok |-> TRUE, reasons |-> <<>>]
        log_contains == Get(criteria, "incident_log_contains")
        st2 ==
          IF Truthy(log_contains)
             /\ ~(\E i \in 1..Len(e.incident_log) :
                    Contains(log_contains[1], GetOr(e.incident_log[i], "message", <<>>)))
          THEN [ok |-> FALSE,
                reasons |-> Append(st1.reasons, <<"incident log missing required message">>)]
          ELSE st1
    IN [valid |-> st2.ok, reasons |-> st2.reasons]

check_acceptance(e, criteria) ==
    LET dep_req == Get(criteria, "deployment")
        svc == Get(dep_req[1], "service")
        ns == Get(dep_req[1], "namespace")
        gte == Get(dep_req[1], "replicas_gte")
        st1 ==
          IF ~Truthy(dep_req) THEN [ok |-> TRUE, reasons |-> <<>>]
          ELSE IF svc = None \/ ns = None \/ <<PyStr(svc), PyStr(ns)>> \notin DOMAIN e.deployments
          THEN [ok |-> FALSE,
                reasons |-> << <<"missing deployment ">> \o PyStr(svc) \o <<":">> \o PyStr(ns) >>]
          ELSE LET reps == e.deployments[<<svc[1], ns[1]>>].replicas
               IN IF gte # None /\ reps < gte[1]
                  THEN [ok |-> FALSE,
                        reasons |-> << <<"replicas ">> \o IntStr(reps) \o <<" < ">> \o IntStr(gte[1]) >>]
                  ELSE [ok |-> TRUE, reasons |-> <<>>]
        log_contains == Get(criteria, "incident_log_contains")
        st2 ==
          IF Truthy(log_contains)
             /\ ~(\E i \in 1..Len(e.incident_log) :
                    Contains(log_contains[1], GetOr(e.incident_log[i], "message", <<>>)))
          THEN [ok |-> FALSE,
                reasons |-> Append(st1.reasons, <<"incident log missing required message">>)]
          ELSE st1
        ticket_status == Get(criteria, "ticket_status")
        st3 ==
          IF Truthy(ticket_status) /\ e.ticket.status # ticket_status[1]
          THEN [ok |-> FALSE,
                reasons |-> Append(st2.reasons,
                              <<"ticket status ">> \o e.ticket.status \o <<" != ">> \o ticket_status[1])]
          ELSE st2
    IN [valid |-> st3.ok, reasons |-> st3.reasons]

\* check_technical_success, had it kept the ticket status in
check_technical_success_with_ticket(e, criteria) ==
    LET dep_req == Get(criteria, "deployment")
        svc == Get(dep_req[1], "service")
        ns == Get(dep_req[1], "namespace")
        gte == Get(dep_req[1], "replicas_gte")
        st1 ==
          IF ~Truthy(dep_req) THEN [ok |-> TRUE, reasons |-> <<>>]
          ELSE IF svc = None \/ ns = None \/ <<PyStr(svc), PyStr(ns)>> \notin DOMAIN e.deployments
          THEN [ok |-> FALSE,
                reasons |-> << <<"missing deployment ">> \o PyStr(svc) \o <<":">> \o PyStr(ns) >>]
          ELSE LET reps == e.deployments[<<svc[1], ns[1]>>].replicas
               IN IF gte # None /\ reps < gte[1]
                  THEN [ok |-> FALSE,
                        reasons |-> << <<"replicas ">> \o IntStr(reps) \o <<" < ">> \o IntStr(gte[1]) >>]
                  ELSE [ok |-> TRUE, reasons |-> <<>>]
        log_contains == Get(criteria, "incident_log_contains")
        st2 ==
          IF Truthy(log_contains)
             /\ ~(\E i \in 1..Len(e.incident_log) :
                    Contains(log_contains[1], GetOr(e.incident_log[i], "message", <<>>)))
          THEN [ok |-> FALSE,
                reasons |-> Append(st1.reasons, <<"incident log missing required message">>)]
          ELSE st1
        ticket_status == Get(criteria, "ticket_status")
        st3 ==
          IF Truthy(ticket_status) /\ e.ticket.status # ticket_status[1]
          THEN [ok |-> FALSE,
                reasons |-> Append(st2.reasons,
                              <<"ticket status ">> \o e.ticket.status \o <<" != ">> \o ticket_status[1])]
          ELSE st2
    IN [valid |-> st3.ok, reasons |-> st3.reasons]

\* check_technical_success, had it left the incident-log condition out too
check_technical_success_deployment_only(e, criteria) ==
    check_acceptance(e, [k \in DOMAIN criteria \ {"incident_log_contains", "ticket_status"}
                           |-> criteria[k]])

check_technical_success(e, criteria) ==
    LET dep_req == Get(criteria, "deployment")
        svc == Get(dep_req[1], "service")
        ns == Get(dep_req[1], "namespace")
        gte == Get(dep_req[1], "replicas_gte")
        st1 ==
          IF ~Truthy(dep_req) THEN [ok |-> TRUE, reasons |-> <<>>]
          ELSE IF svc = None \/ ns = None \/ <<PyStr(svc), PyStr(ns)>> \notin DOMAIN e.deployments
          THEN [ok |-> FALSE,
                reasons |-> << <<"missing deployment ">> \o PyStr(svc) \o <<":">> \o PyStr(ns) >>]
          ELSE LET reps == e.deployments[<<svc[1], ns[1]>>].replicas
               IN IF gte # None /\ reps < gte[1]
                  THEN [ok |-> FALSE,
                        reasons |-> << <<"replicas ">> \o IntStr(reps) \o <<" < ">> \o IntStr(gte[1]) >>]
                  ELSE [ok |-> TRUE, reasons |-> <<>>]
        log_contains == Get(criteria, "incident_log_contains")
        st2 ==
          IF Truthy(log_contains)
             /\ ~(\E i \in 1..Len(e.incident_log) :
                    Contains(log_contains[1], GetOr(e.incident_log[i], "message", <<>>)))
          THEN [ok |-> FALSE,
                reasons |-> Append(st1.reasons, <<"incident log missing required message">>)]
          ELSE st1
    IN [valid |-> st2.ok, reasons |-> st2.reasons]

\* c.get("call", {}).get("name")
CallName(c) == Get(GetOr(c, "call", EmptyDict), "name")

\* the verification loop, had it not cared whether the query came after the
\* action
VerificationLoop_any_order(calls, i, did_action, verification) ==
    /\ \E a \in 1..Len(calls) :
          CallName(calls[a]) \in {Some(<<"k8s_scale">>), Some(<<"k8s_restart">>),
                                  Some(<<"feature_flag_set">>)}
    /\ \E q \in 1..Len(calls) : CallName(calls[q]) = Some(<<"metrics_query">>)

RECURSIVE VerificationLoop_successful_only(_, _, _, _)
\* the verification loop, had it counted only the actions that succeeded
VerificationLoop_successful_only(calls, i, did_action, verification) ==
    IF i > Len(calls) THEN verification
    ELSE LET name == CallName(calls[i])
             did == did_action
                    \/ (/\ name \in {Some(<<"k8s_scale">>), Some(<<"k8s_restart">>),
                                     Some(<<"feature_flag_set">>)}
                        /\ GetOr(GetOr(calls[i], "result", EmptyDict), "ok", FALSE))
         IN VerificationLoop_successful_only(calls, i + 1, did,
                verification \/ (did /\ name = Some(<<"metrics_query">>)))

RECURSIVE VerificationLoop(_, _, _, _)
\* the loop of partial_credit over calls from index i on
VerificationLoop(calls, i, did_action, verification) ==
    IF i > Len(calls) THEN verification
    ELSE LET name == CallName(calls[i])
             did == did_action
                    \/ name \in {Some(<<"k8s_scale">>), Some(<<"k8s_restart">>),
                                 Some(<<"feature_flag_set">>)}
         IN VerificationLoop(calls, i + 1, did,
                             verification \/ (did /\ name = Some(<<"metrics_query">>)))

\* partial_credit, had incident_logged and ticket_updated counted only the
\* calls that succeeded
partial_credit_successful_only(tr) ==
    LET calls == GetOr(tr, "tool_calls", <<>>)
        ResultOf(c) == GetOr(c, "result", EmptyDict)
        any_arg_error ==
          \E i \in 1..Len(calls) :
             /\ ~GetOr(ResultOf(calls[i]), "ok", FALSE)
             /\ Contains(<<"argument error">>,
                         PyStr(GetOr(ResultOf(calls[i]), "error", Some(<<>>))))
    IN [tool_syntax_ok |-> ~any_arg_error,
        verification_performed |-> VerificationLoop(calls, 1, FALSE, FALSE),
        incident_logged |->
          \E i \in 1..Len(calls) :
             /\ CallName(calls[i]) = Some(<<"incident_log">>)
             /\ GetOr(ResultOf(calls[i]), "ok", FALSE),
        ticket_updated |->
          \E i \in 1..Len(calls) :
             /\ CallName(calls[i]) = Some(<<"ticket_update">>)
             /\ GetOr(ResultOf(calls[i]), "ok", FALSE)]

\* partial_credit, had tool_syntax_ok counted every failed result
partial_credit_any_failure(tr) ==
    LET calls == GetOr(tr, "tool_calls", <<>>)
        ResultOf(c) == GetOr(c, "result", EmptyDict)
        any_arg_error ==
          \E i \in 1..Len(calls) : ~GetOr(ResultOf(calls[i]), "ok", FALSE)
    IN [tool_syntax_ok |-> ~any_arg_error,
        verification_performed |-> VerificationLoop(calls, 1, FALSE, FALSE),
        incident_logged |->
          \E i \in 1..Len(calls) : CallName(calls[i]) = Some(<<"incident_log">>),
        ticket_updated |->
          \E i \in 1..Len(calls) : CallName(calls[i]) = Some(<<"ticket_update">>)]

partial_credit(tr) ==
    LET calls == GetOr(tr, "tool_calls", <<>>)
        ResultOf(c) == GetOr(c, "result", EmptyDict)
        any_arg_error ==
          \E i \in 1..Len(calls) :
             /\ ~GetOr(ResultOf(calls[i]), "ok", FALSE)
             /\ Contains(<<"argument error">>,
                         PyStr(GetOr(ResultOf(calls[i]), "error", Some(<<>>))))
    IN [tool_syntax_ok |-> ~any_arg_error,
        verification_performed |-> VerificationLoop(calls, 1, FALSE, FALSE),
        incident_logged |->
          \E i \in 1..Len(calls) : CallName(calls[i]) = Some(<<"incident_log">>),
        ticket_updated |->
          \E i \in 1..Len(calls) : CallName(calls[i]) = Some(<<"ticket_update">>)]

\* the weights, in tenths of a percent of the total (0.60 is 600)
Weights ==
    [technical_task |-> 600, ticket_updated |-> 150, incident_logged |-> 150,
     verification |-> 50, tool_syntax |-> 50]

\* compute_weighted_score, had it scored the technical task from the
\* acceptance result
compute_weighted_score_by_acceptance(acceptance, partial, technical) ==
    LET technical_score == IF GetOr(acceptance, "valid", FALSE) THEN 1 ELSE 0
        ticket_score == IF GetOr(partial, "ticket_updated", FALSE) THEN 1 ELSE 0
        incident_score == IF GetOr(partial, "incident_logged", FALSE) THEN 1 ELSE 0
        verification_score == IF GetOr(partial, "verification_performed", FALSE) THEN 1 ELSE 0
        syntax_score == IF GetOr(partial, "tool_syntax_ok", FALSE) THEN 1 ELSE 0
    IN [total_score |->
          technical_score * Weights.technical_task + ticket_score * Weights.ticket_updated
          + incident_score * Weights.incident_logged
          + verification_score * Weights.verification + syntax_score * Weights.tool_syntax,
        max_score |-> 1000,
        breakdown |->
          [technical_task |-> technical_score * Weights.technical_task,
           ticket_updated |-> ticket_score * Weights.ticket_updated,
           incident_logged |-> incident_score * Weights.incident_logged,
           verification |-> verification_score * Weights.verification,
           tool_syntax |-> syntax_score * Weights.tool_syntax],
        weights |-> Weights]

\* scores are in tenths of a percent: round(x * 100, 1) of 1.0 is 1000
compute_weighted_score(acceptance, partial, technical) ==
    LET technical_score == IF GetOr(technical, "valid", FALSE) THEN 1 ELSE 0
        ticket_score == IF GetOr(partial, "ticket_updated", FALSE) THEN 1 ELSE 0
        incident_score == IF GetOr(partial, "incident_logged", FALSE) THEN 1 ELSE 0
        verification_score == IF GetOr(partial, "verification_performed", FALSE) THEN 1 ELSE 0
        syntax_score == IF GetOr(partial, "tool_syntax_ok", FALSE) THEN 1 ELSE 0
    IN [total_score |->
          technical_score * Weights.technical_task + ticket_score * Weights.ticket_updated
          + incident_score * Weights.incident_logged
          + verification_score * Weights.verification + syntax_score * Weights.tool_syntax,
        max_score |-> 1000,
        breakdown |->
          [technical_task |-> technical_score * Weights.technical_task,
           ticket_updated |-> ticket_score * Weights.ticket_updated,
           incident_logged |-> incident_score * Weights.incident_logged,
           verification |-> verification_score * Weights.verification,
           tool_syntax |-> syntax_score * Weights.tool_syntax],
        weights |-> Weights]

(* ------------------------------ fixtures ------------------------------- *)

JBool(b) == [t |-> "bool", b |-> b, n |-> 0]

JInt(n) == [t |-> "int", b |-> FALSE, n |-> n]

msgMitigate == <<"scaled checkout-service", " to ", "mitigat", "e errors">>

msgOther == <<"looking into it">>

\* initial-state descriptions (data/scenarios.json): a duplicated deployment
\* and a defaulted replica count; flags given as JSON scalars and a ticket
\* without a note; a ticket whose status the fixture made up; nothing at all;
\* deployments whose names hold a colon
InitialStates ==
    << [deployments |->
          << [service |-> checkout, namespace |-> prod, replicas |-> 5],
             [service |-> cart, namespace |-> prod],
             [service |-> checkout, namespace |-> prod, replicas |-> 2] >>],
       [deployments |-> << [service |-> checkout, namespace |-> prod, replicas |-> 2] >>,
        feature_flags |-> (<<"dark-mode">> :> JInt(1)) @@ (<<"beta">> :> JBool(FALSE)),
        ticket |-> [status |-> <<"investigating">>]],
       [deployments |-> << [service |-> checkout, namespace |-> prod, replicas |-> 0] >>,
        ticket |-> [status |-> <<"closed">>, note |-> <<"wontfix">>]],
       EmptyDict,
       [deployments |->
          << [service |-> checkout, namespace |-> <<"prod", ":", "eu">>, replicas |-> 2],
             [service |-> checkout \o <<":", "prod">>, namespace |-> <<"eu">>,
              replicas |-> 4] >>] >>

CritFull ==
    [deployment |-> [service |-> checkout, namespace |-> prod, replicas_gte |-> 5],
     incident_log_contains |-> <<"mitigat">>,
     ticket_status |-> <<"mitigated">>]

\* the scenarios the scripted run of Spec is given
Scenarios ==
    << [initial_state |-> InitialStates[1], acceptance_criteria |-> CritFull],
       [initial_state |-> InitialStates[2],
        acceptance_criteria |->
          [deployment |-> [service |-> checkout, namespace |-> prod, replicas_gte |-> 5]]],
       [initial_state |-> InitialStates[3], acceptance_criteria |-> EmptyDict],
       [initial_state |-> InitialStates[5], acceptance_criteria |-> EmptyDict] >>

\* call.arguments of the calls a script may hold, per tool
MetricsQueryArgs ==
    << [service |-> checkout, metric |-> <<"error_rate">>, minutes |-> 15, namespace |-> prod],
       [service |-> checkout, metric |-> <<"qps">>, minutes |-> 120, namespace |-> prod],
       [service |-> checkout, metric |-> <<"cpu">>, minutes |-> 15, namespace |-> prod],
       [service |-> checkout, metric |-> <<"error_rate">>, minutes |-> 0, namespace |-> prod],
       [service |-> checkout, metric |-> <<"latency_p95">>, minutes |-> 121, namespace |-> prod],
       [service |-> ghost, metric |-> <<"error_rate">>, minutes |-> 15, namespace |-> prod] >>

K8sScaleArgs ==
    << [service |-> checkout, replicas |-> 6, namespace |-> prod],
       [service |-> checkout, replicas |-> 1, namespace |-> prod],
       [service |-> checkout, replicas |-> 100, namespace |-> prod],
       [service |-> checkout, replicas |-> 0, namespace |-> prod],
       [service |-> checkout, replicas |-> 101, namespace |-> prod],
       [service |-> cart, replicas |-> 3, namespace |-> prod],
       [service |-> ghost, replicas |-> 6, namespace |-> prod],
       [service |-> ghost, replicas |-> 150, namespace |-> prod],
       [service |-> checkout, replicas |-> 6, namespace |-> dev],
       [service |-> checkout, namespace |-> prod],
       [service |-> checkout, replicas |-> 6, namespace |-> prod, force |-> TRUE] >>

K8sRestartArgs ==
    << [service |-> checkout, namespace |-> prod],
       [service |-> ghost, namespace |-> prod],
       [service |-> injected, namespace |-> prod],
       [service |-> checkout] >>

FeatureFlagSetArgs ==
    << [flag |-> <<"dark-mode">>, enabled |-> FALSE],
       [flag |-> <<"dark-mode">>, enabled |-> TRUE],
       [flag |-> <<"canary">>, enabled |-> TRUE] >>

IncidentLogArgs ==
    << [message |-> msgMitigate, severity |-> <<"warning">>],
       [message |-> msgOther, severity |-> <<"info">>],
       [message |-> msgMitigate, severity |-> <<"fatal">>] >>

TicketUpdateArgs ==
    << [status |-> <<"mitigated">>, note |-> <<"scaled and verified">>],
       [status |-> <<"resolved">>, note |-> <<>>],
       [status |-> <<"closed">>, note |-> <<"done">>],
       [status |-> <<"mitigated">>] >>

\* names that are not in the registry
UnknownTools == {<<"k8s_delete">>, injected}

(* ---------------- the scripted run: run_eval.run_ground_truth ----------- *)

\* live while no live run is under way
NotLive ==
    [step |-> 0, attempt |-> 0, asked |-> 0, requests |-> 0, raw |-> 0, messages |-> <<>>,
     exit |-> ""]

Init ==
    /\ hashseed \in HashSeeds
    /\ live = NotLive
    /\ \E s \in 1..Len(Scenarios) :
          /\ scenario = Scenarios[s]
          /\ env = build_env(Scenarios[s].initial_state)
    /\ trace = <<>>
    /\ pc = "run"
    /\ final = None
    /\ report = None

\* one iteration of run_sequence's loop on the next call of the sequence:
\* the environment and the trace it leaves
Dispatch(call) ==
    LET r == exec_tool(env, call, Len(trace) + 1)
    IN [env |-> r.env,
        trace |-> Append(trace, [step |-> Len(trace) + 1, call |-> call,
                                 result |-> r.res])]

\* the loop condition, had it lacked the `if i >= max_steps: break`
InLoop_unbounded == pc = "run"

\* the sequence holds a further call and max_steps is not reached
InLoop == pc = "run" /\ Len(trace) < MaxSteps

MetricsQuery ==
    \E i \in 1..Len(MetricsQueryArgs) :
       LET d == Dispatch([name |-> <<"metrics_query">>, arguments |-> MetricsQueryArgs[i]])
       IN /\ InLoop
          /\ env' = d.env
          /\ trace' = d.trace
          /\ UNCHANGED <<pc, scenario, final, report, hashseed, live>>

K8sScale ==
    \E i \in 1..Len(K8sScaleArgs) :
       LET d == Dispatch([name |-> <<"k8s_scale">>, arguments |-> K8sScaleArgs[i]])
       IN /\ InLoop
          /\ env' = d.env
          /\ trace' = d.trace
          /\ UNCHANGED <<pc, scenario, final, report, hashseed, live>>

K8sRestart ==
    \E i \in 1..Len(K8sRestartArgs) :
       LET d == Dispatch([name |-> <<"k8s_restart">>, arguments |-> K8sRestartArgs[i]])
       IN /\ InLoop
          /\ env' = d.env
          /\ trace' = d.trace
          /\ UNCHANGED <<pc, scenario, final, report, hashseed, live>>

FeatureFlagSet ==
    \E i \in 1..Len(FeatureFlagSetArgs) :
       LET d == Dispatch([name |-> <<"feature_flag_set">>,
                          arguments |-> FeatureFlagSetArgs[i]])
       IN /\ InLoop
          /\ env' = d.env
          /\ trace' = d.trace
          /\ UNCHANGED <<pc, scenario, final, report, hashseed, live>>

IncidentLog ==
    \E i \in 1..Len(IncidentLogArgs) :
       LET d == Dispatch([name |-> <<"incident_log">>, arguments |-> IncidentLogArgs[i]])
       IN /\ InLoop
          /\ env' = d.env
          /\ trace' = d.trace
          /\ UNCHANGED <<pc, scenario, final, report, hashseed, live>>

TicketUpdate ==
    \E i \in 1..Len(TicketUpdateArgs) :
       LET d == Dispatch([name |-> <<"ticket_update">>, arguments |-> TicketUpdateArgs[i]])
       IN /\ InLoop
          /\ env' = d.env
          /\ trace' = d.trace
          /\ UNCHANGED <<pc, scenario, final, report, hashseed, live>>

UnknownTool ==
    \E name \in UnknownTools :
       LET d == Dispatch([name |-> name,
                          arguments |-> [service |-> checkout, namespace |-> prod]])
       IN /\ InLoop
          /\ env' = d.env
          /\ trace' = d.trace
          /\ UNCHANGED <<pc, scenario, final, report, hashseed, live>>

\* run_sequence leaves its loop (the sequence ended or max_steps was reached)
\* and returns the trace with the final snapshot
Return ==
    /\ pc = "run"
    /\ final' = Some(Snapshot(env))
    /\ pc' = "returned"
    /\ UNCHANGED <<env, trace, scenario, report, hashseed, live>>

\* the driver scores the run and records it
Score ==
    /\ pc = "returned"
    /\ \E tr \in {[tool_calls |-> trace, final |-> final[1]]} :
       \* each of the four results is computed once
       \E acc \in {check_acceptance(env, scenario.acceptance_criteria)},
          technical \in {check_technical_success(env, scenario.acceptance_criteria)},
          partial \in {partial_credit(tr)} :
          \E weighted \in {compute_weighted_score(acc, partial, technical)} :
             report' = Some([valid |-> acc.valid, technical_success |-> technical.valid,
                             reasons |-> acc.reasons, trace |-> tr, partial |-> partial,
                             weighted_score |-> weighted])
    /\ pc' = "done"
    /\ UNCHANGED <<env, trace, scenario, final, hashseed, live>>

Next ==
    \/ MetricsQuery
    \/ K8sScale
    \/ K8sRestart
    \/ FeatureFlagSet
    \/ IncidentLog
    \/ TicketUpdate
    \/ UnknownTool
    \/ Return
    \/ Score

Spec == Init /\ [][Next]_vars

(* -------- check_acceptance / check_technical_success as functions ------- *)

\* the calls of the scripts that lead to the scored environments
AcceptCalls ==
    << [name |-> <<"k8s_scale">>, arguments |-> K8sScaleArgs[1]],
       [name |-> <<"k8s_scale">>, arguments |-> K8sScaleArgs[2]],
       [name |-> <<"incident_log">>, arguments |-> IncidentLogArgs[1]],
       [name |-> <<"incident_log">>, arguments |-> IncidentLogArgs[2]],
       [name |-> <<"ticket_update">>, arguments |-> TicketUpdateArgs[1]],
       [name |-> <<"ticket_update">>, arguments |-> TicketUpdateArgs[2]] >>

\* criteria.get("deployment"): absent, empty, an unknown deployment, a floor,
\* no floor, no service
DeploymentReqs ==
    << None,
       Some(EmptyDict),
       Some([service |-> ghost, namespace |-> prod, replicas_gte |-> 5]),
       Some([service |-> checkout, namespace |-> prod, replicas_gte |-> 5]),
       Some([service |-> checkout, namespace |-> prod]),
       Some([namespace |-> prod, replicas_gte |-> 1]) >>

\* criteria.get("incident_log_contains")
LogReqs == << None, Some(<<>>), Some(<<"mitigat">>) >>

\* criteria.get("ticket_status")
TicketReqs == << None, Some(<<>>), Some(<<"mitigated">>) >>

\* the acceptance_criteria dict holding the given entries
Criteria(d, l, t) ==
    [k \in {x \in {"deployment", "incident_log_contains", "ticket_status"} :
              \/ x = "deployment" /\ d # None
              \/ x = "incident_log_contains" /\ l # None
              \/ x = "ticket_status" /\ t # None} |->
       CASE k = "deployment" -> d[1]
         [] k = "incident_log_contains" -> l[1]
         [] k = "ticket_status" -> t[1]]

\* the sequences of at most n indices into a list of k calls
IndexSeqs(k, n) == UNION {[1..m -> 1..k] : m \in 0..n}

\* the script of the calls at the given indices
Script(calls, ix) == [j \in 1..Len(ix) |-> calls[ix[j]]]

\* the state in which the driver has run the script on the scenario's
\* environment and is about to score it
Ran(sc, sequence) ==
    \E r \in {run_sequence(build_env(sc.initial_state), sequence, DefaultMaxSteps)} :
       /\ scenario = sc
       /\ env = r.env
       /\ trace = r.trace.tool_calls
       /\ final = Some(r.trace.final)
       /\ pc = "returned"
       /\ report = None
       /\ live = NotLive

InitAccept ==
    /\ hashseed \in HashSeeds
    /\ \E s \in 1..Len(InitialStates), d \in 1..Len(DeploymentReqs), l \in 1..Len(LogReqs),
       t \in 1..Len(TicketReqs), ix \in IndexSeqs(Len(AcceptCalls), MaxAcceptScript) :
       Ran([initial_state |-> InitialStates[s],
            acceptance_criteria |-> Criteria(DeploymentReqs[d], LogReqs[l], TicketReqs[t])],
           Script(AcceptCalls, ix))

NextAccept == Score

SpecAccept == InitAccept /\ [][NextAccept]_vars

(* ----------------------- partial_credit as a function ------------------- *)

\* the calls of the scripts that produce the scored traces: each signal's
\* tool succeeding and failing, and each class of failure
TraceCalls ==
    << [name |-> <<"k8s_scale">>, arguments |-> K8sScaleArgs[1]],
       [name |-> <<"k8s_scale">>,
        arguments |-> [service |-> checkout, replicas |-> 150, namespace |-> prod]],
       [name |-> <<"k8s_scale">>, arguments |-> K8sScaleArgs[10]],
       [name |-> <<"k8s_restart">>, arguments |-> K8sRestartArgs[2]],
       [name |-> <<"k8s_restart">>, arguments |-> K8sRestartArgs[3]],
       [name |-> <<"feature_flag_set">>, arguments |-> FeatureFlagSetArgs[1]],
       [name |-> <<"metrics_query">>, arguments |-> MetricsQueryArgs[1]],
       [name |-> <<"metrics_query">>, arguments |-> MetricsQueryArgs[6]],
       [name |-> <<"incident_log">>, arguments |-> IncidentLogArgs[1]],
       [name |-> <<"incident_log">>, arguments |-> IncidentLogArgs[3]],
       [name |-> <<"ticket_update">>, arguments |-> TicketUpdateArgs[1]],
       [name |-> <<"ticket_update">>, arguments |-> TicketUpdateArgs[3]],
       [name |-> <<"k8s_delete">>, arguments |-> K8sRestartArgs[1]] >>

InitPartial ==
    /\ hashseed \in HashSeeds
    /\ \E ix \in IndexSeqs(Len(TraceCalls), MaxTraceScript) :
       Ran(Scenarios[1], Script(TraceCalls, ix))

NextPartial == Score

SpecPartial == InitPartial /\ [][NextPartial]_vars

(* ------------- the whole scoring of a run (run_ground_truth) ------------ *)

\* the ground-truth sequence of the scaling scenario (data/ground_truth.json):
\* scale, verify, log, update the ticket
GroundTruth ==
    << [name |-> <<"k8s_scale">>, arguments |-> K8sScaleArgs[1]],
       [name |-> <<"metrics_query">>, arguments |-> MetricsQueryArgs[1]],
       [name |-> <<"incident_log">>, arguments |-> IncidentLogArgs[1]],
       [name |-> <<"ticket_update">>, arguments |-> TicketUpdateArgs[1]] >>

\* the calls of the scored scripts: the ground truth's, a call that lacks an
\* argument and an action that leaves the deployments alone
ScoreCalls ==
    GroundTruth
      \o << [name |-> <<"k8s_scale">>, arguments |-> K8sScaleArgs[10]],
            [name |-> <<"feature_flag_set">>, arguments |-> FeatureFlagSetArgs[1]] >>

\* the scored scenarios: the scaling scenario from two initial states that
\* leave checkout-service/prod with 2 replicas, with and without the ticket
\* criterion, and a scenario that requires nothing
ScoreScenarios ==
    << Scenarios[1],
       [initial_state |-> InitialStates[2],
        acceptance_criteria |-> [k \in {"deployment", "incident_log_contains"} |-> CritFull[k]]],
       Scenarios[3] >>

InitScore ==
    /\ hashseed \in HashSeeds
    /\ \E s \in 1..Len(ScoreScenarios), ix \in IndexSeqs(Len(ScoreCalls), MaxScoreScript) :
          Ran(ScoreScenarios[s], Script(ScoreCalls, ix))

NextScore == Score

SpecScore == InitScore /\ [][NextScore]_vars

(* ------------------ the live run: Harness.run_llm ----------------------- *)
(* `live` holds run_llm's locals: the loop variable `step`, the `attempt`  *)
(* of the parse loop, the number `asked` of requests made to the decision  *)
(* source in this iteration and the number `requests` made in the whole    *)
(* run, the reply `raw` (its index in Replies), the conversation           *)
(* `messages`, and, once the run is over, the `exit` taken.                *)
(* A reply is None (a null content) or a text, a sequence of atoms in      *)
(* which "{" and "}" are atoms of their own.  JSON values carry their      *)
(* type: JStr, JInt, JBool, JNull, JList, JObj.                            *)

JStr(x) == [t |-> "str", v |-> x]

JNull == [t |-> "null"]

JList(l) == [t |-> "list", v |-> l]

JObj(d) == [t |-> "object", v |-> d]

\* bool(v) of a parsed JSON value
JTruthy(v) ==
    CASE v.t = "null" -> FALSE
      [] v.t = "str" -> v.v # <<>>
      [] v.t = "list" -> v.v # <<>>
      [] v.t = "object" -> DOMAIN v.v # {}
      [] v.t = "int" -> v.n # 0
      [] v.t = "bool" -> v.b

\* the truth value of d.get(k): a missing key and a null are both None
PyTruthy(opt) == opt # None /\ JTruthy(opt[1])

\* the JSON objects replies may hold, by the text between their braces
JsonObjects ==
    ("final_answer: no_api_key" :> [final_answer |-> JStr(<<"no_api_key">>)])
    @@ ("final_answer, tool_call" :>
          [final_answer |-> JStr(<<"done">>),
           tool_call |-> JObj([name |-> JStr(<<"k8s_scale">>),
                               arguments |-> JObj(K8sScaleArgs[6])])])
    @@ ("tool_call: k8s_scale" :>
          [tool_call |-> JObj([name |-> JStr(<<"k8s_scale">>),
                               arguments |-> JObj(K8sScaleArgs[1])])])
    @@ ("tool_call: metrics_query" :>
          [tool_call |-> JObj([name |-> JStr(<<"metrics_query">>),
                               arguments |-> JObj(MetricsQueryArgs[1])])])
    @@ ("tool_call: incident_log" :>
          [tool_call |-> JObj([name |-> JStr(<<"incident_log">>),
                               arguments |-> JObj(IncidentLogArgs[1])])])
    @@ ("tool_call: k8s_scale, replicas 150" :>
          [tool_call |-> JObj([name |-> JStr(<<"k8s_scale">>),
                               arguments |-> JObj([service |-> checkout, replicas |-> 150,
                                                   namespace |-> prod])])])
    @@ ("tool_call: k8s_delete" :>
          [tool_call |-> JObj([name |-> JStr(<<"k8s_delete">>),
                               arguments |-> JObj(K8sRestartArgs[1])])])
    @@ ("answer: done" :> [answer |-> JStr(<<"done">>)])
    @@ ("tool_call: null" :> [tool_call |-> JNull])
    @@ ("tool_call: string" :> [tool_call |-> JStr(<<"k8s_restart">>)])
    @@ ("tool_call: {}" :> [tool_call |-> JObj(EmptyDict)])
    @@ ("tool_call: no name" :> [tool_call |-> JObj([arguments |-> JObj(K8sRestartArgs[1])])])
    @@ ("tool_call: name 7" :>
          [tool_call |-> JObj([name |-> JInt(7), arguments |-> JObj(K8sRestartArgs[1])])])
    @@ ("tool_call: no arguments" :> [tool_call |-> JObj([name |-> JStr(<<"k8s_restart">>)])])
    @@ ("tool_call: arguments null" :>
          [tool_call |-> JObj([name |-> JStr(<<"k8s_restart">>), arguments |-> JNull])])
    @@ ("tool_call: arguments []" :>
          [tool_call |-> JObj([name |-> JStr(<<"k8s_restart">>), arguments |-> JList(<<>>)])])
    @@ ("tool_call: arguments [1]" :>
          [tool_call |-> JObj([name |-> JStr(<<"k8s_restart">>),
                               arguments |-> JList(<<1>>)])])
    @@ ("tool_call: arguments string" :>
          [tool_call |-> JObj([name |-> JStr(<<"k8s_restart">>),
                               arguments |-> JStr(<<"checkout-service">>)])])

\* the text of the reply that is the JSON object of the given body
ObjectText(body) == <<"{", body, "}">>

\* the replies the decision source may give: None is a null content
Replies ==
    << Some(ObjectText("final_answer: no_api_key")),
       Some(<<"Done. ">> \o ObjectText("final_answer, tool_call") \o <<"\n">>),
       Some(ObjectText("tool_call: k8s_scale")),
       Some(<<"\n", "Calling the tool: ">> \o ObjectText("tool_call: metrics_query")),
       Some(ObjectText("tool_call: incident_log")),
       Some(ObjectText("tool_call: k8s_scale, replicas 150")),
       Some(ObjectText("tool_call: k8s_delete")),
       Some(ObjectText("answer: done")),
       Some(<<"{", "}">>),
       Some(ObjectText("tool_call: null")),
       Some(ObjectText("tool_call: string")),
       Some(ObjectText("tool_call: {}")),
       Some(ObjectText("tool_call: no name")),
       Some(ObjectText("tool_call: name 7")),
       Some(ObjectText("tool_call: no arguments")),
       Some(ObjectText("tool_call: arguments null")),
       Some(ObjectText("tool_call: arguments []")),
       Some(ObjectText("tool_call: arguments [1]")),
       Some(ObjectText("tool_call: arguments string")),
       Some(<<"123">>),
       Some(<<"[", "]">>),
       Some(<<"I will scale the service.">>),
       Some(ObjectText("tool_call: k8s_scale") \o <<" ">> \o ObjectText("final_answer: no_api_key")),
       Some(<<"{", "tool_call: k8s_scale">>),
       None >>

RECURSIVE Strip(_)
\* txt.strip()
Strip(txt) ==
    IF txt = <<>> THEN txt
    ELSE IF Head(txt) \in {" ", "\n"} THEN Strip(Tail(txt))
    ELSE IF txt[Len(txt)] \in {" ", "\n"} THEN Strip(SubSeq(txt, 1, Len(txt) - 1))
    ELSE txt

\* txt.find(c) and txt.rfind(c), counted from 1: 0 when c is not in txt
Find(txt, c) ==
    IF \E i \in 1..Len(txt) : txt[i] = c
    THEN CHOOSE i \in 1..Len(txt) : txt[i] = c /\ \A j \in 1..(i - 1) : txt[j] # c
    ELSE 0

RFind(txt, c) ==
    IF \E i \in 1..Len(txt) : txt[i] = c
    THEN CHOOSE i \in 1..Len(txt) : txt[i] = c /\ \A j \in (i + 1)..Len(txt) : txt[j] # c
    ELSE 0

\* json.loads(txt): None when it raises
json_loads(txt) ==
    IF Len(txt) = 3 /\ txt[1] = "{" /\ txt[3] = "}" /\ txt[2] \in DOMAIN JsonObjects
    THEN Some(JObj(JsonObjects[txt[2]]))
    ELSE IF txt = <<"{", "}">> THEN Some(JObj(EmptyDict))
    ELSE IF txt = <<"123">> THEN Some(JInt(123))
    ELSE IF txt = <<"[", "]">> THEN Some(JList(<<>>))
    ELSE None

\* run_llm's parse_response(raw): None when it raises
parse_response(raw) ==
    IF raw = None THEN None
    ELSE LET txt == Strip(raw[1])
             start == Find(txt, "{")
             end == RFind(txt, "}")
         IN IF start >= 1 /\ end >= start
            THEN json_loads(SubSeq(txt, start, end))
            ELSE json_loads(txt)

\* parse_response(raw) of every reply, computed once
Parses == [i \in 1..Len(Replies) |-> parse_response(Replies[i])]

\* `parsed`, once the reply in hand has parsed
Parsed == Parses[live.raw][1]

\* a message of the conversation
Message(role, content) == [role |-> role, content |-> content]

\* the final_answer test, had a tool_call in the same payload come first
HasFinalAnswer_without_tool_call(parsed) ==
    "final_answer" \in DOMAIN parsed.v /\ "tool_call" \notin DOMAIN parsed.v

\* `"final_answer" in parsed`, parsed being a JSON object
HasFinalAnswer(parsed) == "final_answer" \in DOMAIN parsed.v

\* call = parsed.get("tool_call")
ToolCallOf(parsed) == Get(parsed.v, "tool_call")

\* not (`not call or not isinstance(call, dict)`)
IsCallDict(call) == PyTruthy(call) /\ call[1].t = "object"

\* name = call.get("name")
CallNameOf(call) == Get(call[1].v, "name")

\* the arguments, had they been taken as given, without the `or {}`
CallArguments_as_given(call) ==
    LET arguments == Get(call[1].v, "arguments")
    IN IF arguments = None THEN JNull ELSE arguments[1]

\* args = call.get("arguments") or {}
CallArguments(call) ==
    LET arguments == Get(call[1].v, "arguments")
    IN IF PyTruthy(arguments) THEN arguments[1] ELSE JObj(EmptyDict)

\* not (`not isinstance(name, str) or not isinstance(args, dict)`)
IsCallShape(name, args) == name # None /\ name[1].t = "str" /\ args.t = "object"

\* the locals after one more pass of the body: the message appended, the loop
\* variable advanced
Advance(l, message) ==
    [l EXCEPT !.messages = Append(@, message), !.step = @ + 1, !.attempt = 0, !.asked = 0]

\* `continue`, had it gone back to the request without advancing the loop
Continue_same_turn(l, message) ==
    [l EXCEPT !.messages = Append(@, message), !.attempt = 0, !.asked = 0]

\* the locals after a corrective message and `continue`
Continue(l, message) == Advance(l, message)

\* the locals when the run returns by the given exit
Exit(l, exit) == [l EXCEPT !.exit = exit]

\* the top of the for loop with the locals l: another iteration, or the step
\* limit is reached and the run returns the trace with the final snapshot of e
Loop(l, e) ==
    IF l.step <= MaxLiveSteps
    THEN /\ pc' = "chat"
         /\ live' = l
         /\ final' = final
    ELSE /\ pc' = "returned"
         /\ live' = Exit([l EXCEPT !.step = MaxLiveSteps], "step_limit")
         /\ final' = Some(Snapshot(e))

InitLive ==
    /\ hashseed \in HashSeeds
    /\ \E s \in 1..Len(Scenarios) :
          /\ scenario = Scenarios[s]
          /\ env = build_env(Scenarios[s].initial_state)
    /\ trace = <<>>
    /\ pc = "chat"
    /\ final = None
    /\ report = None
    /\ live = [step |-> 1, attempt |-> 0, asked |-> 0, requests |-> 0, raw |-> 0, exit |-> "",
               messages |-> << Message("system", "tool schema"),
                               Message("system", "variant prompt"),
                               Message("user", "user prompt") >>]

\* raw = self._openrouter_chat(messages) returns a reply (without an API key
\* it returns the no_api_key final answer, Replies[1])
Chat ==
    /\ pc = "chat"
    /\ \E i \in 1..Len(Replies) :
          live' = [live EXCEPT !.raw = i, !.asked = @ + 1, !.requests = @ + 1, !.attempt = 0]
    /\ pc' = "parse"
    /\ UNCHANGED <<env, trace, scenario, final, report, hashseed>>

\* self._openrouter_chat(messages) raises: the error is noted, the loop is
\* left and the run returns what it has
ChatError ==
    /\ pc = "chat"
    /\ live' = Exit([live EXCEPT !.asked = @ + 1, !.requests = @ + 1,
                                 !.messages = Append(@, Message("system", "ERROR"))],
                    "error")
    /\ final' = Some(Snapshot(env))
    /\ pc' = "returned"
    /\ UNCHANGED <<env, trace, scenario, report, hashseed>>

\* parse_response(raw) raises: the reformat request is appended, and the
\* handler asks the decision source again
Reformat ==
    /\ pc = "parse"
    /\ Parses[live.raw] = None
    /\ live' = [live EXCEPT !.messages = Append(@, Message("user", "not valid JSON"))]
    /\ pc' = "rechat"
    /\ UNCHANGED <<env, trace, scenario, final, report, hashseed>>

\* the re-request, had the parse loop gone on until a reply parsed
Rechat_until_parsed ==
    /\ pc = "rechat"
    /\ \E i \in 1..Len(Replies) :
          live' = [live EXCEPT !.raw = i, !.asked = @ + 1, !.requests = @ + 1,
                               !.attempt = @ + 1]
    /\ pc' = "parse"
    /\ UNCHANGED <<env, trace, scenario, final, report, hashseed>>

\* the request made inside the handler returns a reply: the next attempt
\* parses it, or, with the attempts used up, the loop is left unparsed
Rechat ==
    /\ pc = "rechat"
    /\ \E i \in 1..Len(Replies) :
          LET l == [live EXCEPT !.raw = i, !.asked = @ + 1, !.requests = @ + 1,
                                !.attempt = @ + 1]
          IN IF l.attempt < 2
             THEN /\ live' = l
                  /\ pc' = "parse"
                  /\ final' = final
             ELSE /\ live' = Exit(l, "unparsed")
                  /\ pc' = "returned"
                  /\ final' = Some(Snapshot(env))
    /\ UNCHANGED <<env, trace, scenario, report, hashseed>>

\* the request made inside the handler raises: nothing catches it, neither in
\* run_llm nor in the driver
RechatError ==
    /\ pc = "rechat"
    /\ live' = Exit([live EXCEPT !.asked = @ + 1, !.requests = @ + 1], "exception")
    /\ pc' = "crashed"
    /\ UNCHANGED <<env, trace, scenario, final, report, hashseed>>

\* the reply parsed to JSON that is no object: `"final_answer" in parsed`
\* raises TypeError on a number, parsed.get raises AttributeError on a list
NotAnObject ==
    /\ pc = "parse"
    /\ Parses[live.raw] # None
    /\ Parsed.t # "object"
    /\ live' = Exit(live, "exception")
    /\ pc' = "crashed"
    /\ UNCHANGED <<env, trace, scenario, final, report, hashseed>>

\* the reply holds final_answer: the run returns the trace and the snapshot
FinalAnswer ==
    /\ pc = "parse"
    /\ Parses[live.raw] # None
    /\ Parsed.t = "object"
    /\ HasFinalAnswer(Parsed)
    /\ live' = Exit(live, "final_answer")
    /\ final' = Some(Snapshot(env))
    /\ pc' = "returned"
    /\ UNCHANGED <<env, trace, scenario, report, hashseed>>

\* the reply holds neither final_answer nor a tool_call dict
MissingCall ==
    /\ pc = "parse"
    /\ Parses[live.raw] # None
    /\ Parsed.t = "object"
    /\ ~HasFinalAnswer(Parsed)
    /\ ~IsCallDict(ToolCallOf(Parsed))
    /\ Loop(Continue(live, Message("user", "need tool_call or final_answer")), env)
    /\ UNCHANGED <<env, trace, scenario, report, hashseed>>

\* the tool_call has no string name or its arguments are no dict
MalformedCall ==
    /\ pc = "parse"
    /\ Parses[live.raw] # None
    /\ Parsed.t = "object"
    /\ ~HasFinalAnswer(Parsed)
    /\ IsCallDict(ToolCallOf(Parsed))
    /\ ~IsCallShape(CallNameOf(ToolCallOf(Parsed)), CallArguments(ToolCallOf(Parsed)))
    /\ Loop(Continue(live, Message("user", "malformed tool_call")), env)
    /\ UNCHANGED <<env, trace, scenario, report, hashseed>>

\* the entry run_llm appends for the call it executed at `step`
LiveEntry(step, name, args, res) ==
    [step |-> step, call |-> [name |-> name, arguments |-> args], result |-> res]

\* the tool_call is executed, recorded, and its result fed back
ExecuteTool ==
    /\ pc = "parse"
    /\ Parses[live.raw] # None
    /\ Parsed.t = "object"
    /\ ~HasFinalAnswer(Parsed)
    /\ IsCallDict(ToolCallOf(Parsed))
    /\ IsCallShape(CallNameOf(ToolCallOf(Parsed)), CallArguments(ToolCallOf(Parsed)))
    /\ \E name \in {CallNameOf(ToolCallOf(Parsed))[1].v},
          args \in {CallArguments(ToolCallOf(Parsed)).v} :
          \* res = exec_tool(env, ToolCall(name=name, arguments=args)), evaluated once
          \E r \in {exec_tool(env, [name |-> name, arguments |-> args], live.step)} :
             /\ env' = r.env
             /\ trace' = Append(trace, LiveEntry(live.step, name, args, r.res))
             /\ Loop(Advance(live, Message("assistant", "tool_result")), r.env)
    /\ UNCHANGED <<scenario, report, hashseed>>

NextLive ==
    \/ Chat
    \/ ChatError
    \/ Reformat
    \/ Rechat
    \/ RechatError
    \/ NotAnObject
    \/ FinalAnswer
    \/ MissingCall
    \/ MalformedCall
    \/ ExecuteTool
    \/ Score

SpecLive == InitLive /\ [][NextLive]_vars

\* the live run as the interpreter executes it: a statement of run_llm that
\* can run does run, and a request returns or raises (requests.post is given
\* a timeout)
SpecLiveFair ==
    SpecLive
      /\ WF_vars(Chat \/ ChatError \/ Reformat \/ Rechat \/ RechatError \/ NotAnObject
                    \/ FinalAnswer \/ MissingCall \/ MalformedCall \/ ExecuteTool)

\* the scripted and the live run
InitRuns == Init \/ InitLive

NextRuns == Next \/ NextLive

SpecRuns == InitRuns /\ [][NextRuns]_vars

(* ------------------------------- claims -------------------------------- *)

\* the step dispatched a call: run_sequence appended one entry to the trace
Dispatched == Len(trace') = Len(trace) + 1

\* the entry that step appended
Entry == trace'[Len(trace')]

\* the call's keywords are exactly the parameters of its tool
WellFormed(call) ==
    /\ call.name \in DOMAIN TOOL_REGISTRY
    /\ DOMAIN call.arguments = TOOL_REGISTRY[call.name]

\* the (service, namespace) key a call names
KeyOf(call) == <<call.arguments.service, call.arguments.namespace>>

\* C1: a scale call on an existing (service, namespace) key with replicas in
\* [1,100] succeeds, sets that deployment's replica count to the requested
\* value, and leaves every other deployment, that deployment's other fields,
\* the set of deployments, the feature flags, the ticket and the incident log
\* as they were.
C1_ScaleFrame ==
    [][ (/\ Dispatched
         /\ Entry.call.name = <<"k8s_scale">>
         /\ WellFormed(Entry.call)
         /\ Entry.call.arguments.replicas \in 1..100
         /\ KeyOf(Entry.call) \in DOMAIN env.deployments)
        => (/\ Entry.result.ok
            /\ DOMAIN env'.deployments = DOMAIN env.deployments
            /\ env'.deployments[KeyOf(Entry.call)].replicas = Entry.call.arguments.replicas
            /\ env'.deployments[KeyOf(Entry.call)].restarted_at
                 = env.deployments[KeyOf(Entry.call)].restarted_at
            /\ \A k \in DOMAIN env.deployments :
                  k # KeyOf(Entry.call) => env'.deployments[k] = env.deployments[k]
            /\ env'.feature_flags = env.feature_flags
            /\ env'.ticket = env.ticket
            /\ env'.incident_log = env.incident_log) ]_vars

\* C1's case: checkout-service/prod was scaled from 2 to 6 after a restart of
\* it, beside cart-service/prod, which still has its 1 replica
C1_Witness ==
    /\ Len(trace) = 2
    /\ trace[2].call.name = <<"k8s_scale">>
    /\ trace[2].result.ok
    /\ <<cart, prod>> \in DOMAIN env.deployments
    /\ env.deployments[<<checkout, prod>>].replicas = 6
    /\ env.deployments[<<checkout, prod>>].restarted_at # None
    /\ env.deployments[<<cart, prod>>].replicas = 1

\* the classes of invalid call the registry boundary answers with ok=false
Rejected(call, e) ==
    IF call.name \notin DOMAIN TOOL_REGISTRY THEN TRUE
    ELSE IF DOMAIN call.arguments # TOOL_REGISTRY[call.name] THEN TRUE
    ELSE CASE call.name = <<"k8s_scale">> ->
                call.arguments.replicas \notin 1..100 \/ KeyOf(call) \notin DOMAIN e.deployments
           [] call.name = <<"k8s_restart">> -> KeyOf(call) \notin DOMAIN e.deployments
           [] call.name = <<"metrics_query">> ->
                \/ call.arguments.metric \notin {<<"latency_p95">>, <<"error_rate">>, <<"qps">>}
                \/ call.arguments.minutes \notin 1..120
                \/ KeyOf(call) \notin DOMAIN e.deployments
           [] call.name = <<"incident_log">> ->
                call.arguments.severity \notin {<<"info">>, <<"warning">>, <<"critical">>}
           [] call.name = <<"ticket_update">> ->
                call.arguments.status
                  \notin {<<"open">>, <<"investigating">>, <<"mitigated">>, <<"resolved">>}
           [] OTHER -> FALSE

\* C2: every dispatch of an invalid call (unknown tool, unknown deployment,
\* replicas outside [1,100], minutes outside [1,120], invalid metric, severity
\* or status, missing or unexpected arguments) yields a record with ok=false,
\* a valid call yields ok=true, and every dispatch that yields ok=false leaves
\* the whole environment exactly as it was.
C2_FailureLeavesEnv ==
    [][ Dispatched
        => (/\ Entry.result.ok = ~Rejected(Entry.call, env)
            /\ (~Entry.result.ok => env' = env)) ]_vars

\* C2's case: after a successful restart, a scale of the existing
\* checkout-service/prod to 101 replicas was answered with a failure
C2_Witness ==
    /\ Len(trace) = 2
    /\ trace[1].call.name = <<"k8s_restart">>
    /\ trace[1].result.ok
    /\ trace[2].call.name = <<"k8s_scale">>
    /\ WellFormed(trace[2].call)
    /\ trace[2].call.arguments.replicas = 101
    /\ KeyOf(trace[2].call) \in DOMAIN env.deployments
    /\ ~trace[2].result.ok

\* C3: in every reachable state the ticket status is one of open,
\* investigating, mitigated, resolved.
C3_TicketStatusEnum ==
    env.ticket.status \in {<<"open">>, <<"investigating">>, <<"mitigated">>, <<"resolved">>}

\* C4: the incident log is append-only: over every step the previous log is a
\* prefix of the current one; a successful incident_log call lengthens it by
\* exactly one entry that carries the given severity and message; every other
\* step (a failed incident_log among them) leaves it unchanged.
C4_LogAppendOnly ==
    [][ /\ Len(env'.incident_log) >= Len(env.incident_log)
        /\ SubSeq(env'.incident_log, 1, Len(env.incident_log)) = env.incident_log
        /\ IF Dispatched /\ Entry.call.name = <<"incident_log">> /\ Entry.result.ok
           THEN /\ Len(env'.incident_log) = Len(env.incident_log) + 1
                /\ env'.incident_log[Len(env'.incident_log)].severity
                     = Entry.call.arguments.severity
                /\ env'.incident_log[Len(env'.incident_log)].message
                     = Entry.call.arguments.message
           ELSE env'.incident_log = env.incident_log ]_vars

\* C4's case: a second entry was appended behind a first, different one
C4_Witness ==
    /\ Len(env.incident_log) = 2
    /\ env.incident_log[1].message = msgOther
    /\ env.incident_log[2].message = msgMitigate
    /\ env.incident_log[2].severity = <<"warning">>
    /\ Len(trace) = 2
    /\ trace[2].result.ok

\* the driver has scored the run
Scored == pc = "done"

Crit == scenario.acceptance_criteria

\* the deployment criterion holds: the named deployment exists and has at
\* least replicas_gte replicas (when a floor is given)
DeploymentMet(d) ==
    /\ {"service", "namespace"} \subseteq DOMAIN d
    /\ <<d.service, d.namespace>> \in DOMAIN env.deployments
    /\ "replicas_gte" \in DOMAIN d
         => env.deployments[<<d.service, d.namespace>>].replicas >= d.replicas_gte

\* the log criterion holds: some incident-log message contains the substring
LogMet(sub) == \E i \in 1..Len(env.incident_log) : Contains(sub, env.incident_log[i].message)

\* the ticket criterion holds
TicketMet(status) == env.ticket.status = status

CriterionMet(k) ==
    CASE k = "deployment" -> DeploymentMet(Crit[k])
      [] k = "incident_log_contains" -> LogMet(Crit[k])
      [] k = "ticket_status" -> TicketMet(Crit[k])

\* C5 as stated, a criterion being present when the scenario's criteria hold
\* its key: valid iff every criterion present holds.
C5_AsStated ==
    Scored => (report[1].valid <=> \A k \in DOMAIN Crit : CriterionMet(k))

\* the scenario requires criterion k: its key is there and its value is not
\* empty ({} or "")
Required(k) == k \in DOMAIN Crit /\ DOMAIN Crit[k] # {}

\* C5 (amended): check_acceptance returns valid=true iff every criterion that
\* is present and not empty holds on the final environment; a criterion that
\* is absent or empty ({} or "") is vacuously satisfied; valid is true exactly
\* when the reasons list is empty, and each unmet criterion contributes
\* exactly one reason.
C5_Acceptance ==
    Scored =>
      /\ report[1].valid <=> \A k \in DOMAIN Crit : Required(k) => CriterionMet(k)
      /\ report[1].valid <=> report[1].reasons = <<>>
      /\ Len(report[1].reasons)
           = Cardinality({k \in DOMAIN Crit : Required(k) /\ ~CriterionMet(k)})

\* C5's case: after a run that changed the environment, the deployment and
\* log criteria are required and unmet, and the ticket criterion is the empty
\* string, which the ticket's status differs from: two reasons, not three
C5_Witness ==
    /\ Scored
    /\ Len(trace) = 2
    /\ \A k \in {"deployment", "incident_log_contains"} : Required(k) /\ ~CriterionMet(k)
    /\ "ticket_status" \in DOMAIN Crit
    /\ Crit.ticket_status = <<>>
    /\ ~CriterionMet("ticket_status")
    /\ env.incident_log # <<>>
    /\ ~report[1].valid
    /\ Len(report[1].reasons) = 2

\* the criteria with the ticket_status condition removed
CritWithoutTicket == [k \in DOMAIN Crit \ {"ticket_status"} |-> Crit[k]]

\* C6: check_technical_success gives the validity check_acceptance gives on
\* the criteria with ticket_status removed; it is the same whatever the
\* ticket status is; acceptance valid implies technical success valid; and an
\* end state that meets the deployment and log criteria but not the required
\* ticket status is technical-success=true and acceptance=false.
C6_TechnicalSuccess ==
    Scored =>
      /\ report[1].technical_success = check_acceptance(env, CritWithoutTicket).valid
      /\ \A status \in {<<>>, <<"open">>, <<"mitigated">>, <<"closed">>} :
            check_technical_success([env EXCEPT !.ticket.status = status], Crit).valid
              = report[1].technical_success
      /\ report[1].valid => report[1].technical_success
      /\ (/\ \A k \in DOMAIN CritWithoutTicket : Required(k) => CriterionMet(k)
          /\ Required("ticket_status")
          /\ ~CriterionMet("ticket_status"))
         => (report[1].technical_success /\ ~report[1].valid)

\* C6's case: the run scaled checkout-service/prod to 6 >= 5 and logged the
\* required message, and the ticket is not in the required status
C6_Witness ==
    /\ Scored
    /\ \A k \in {"deployment", "incident_log_contains", "ticket_status"} : Required(k)
    /\ "replicas_gte" \in DOMAIN Crit.deployment
    /\ CriterionMet("deployment")
    /\ CriterionMet("incident_log_contains")
    /\ ~CriterionMet("ticket_status")
    /\ report[1].technical_success
    /\ ~report[1].valid

\* trace entry i is a mutating action (scale, restart or flag change)
IsAction(i) ==
    trace[i].call.name \in {<<"k8s_scale">>, <<"k8s_restart">>, <<"feature_flag_set">>}

\* trace entry i is a metrics query
IsQuery(i) == trace[i].call.name = <<"metrics_query">>

Steps == 1..Len(trace)

\* C7: verification_performed is true if some metrics query entry comes
\* strictly later than some mutating action entry, and false if every metrics
\* query precedes every mutating action or the trace has no metrics query or
\* no mutating action.
C7_VerificationOrder ==
    Scored =>
      /\ (\E a, q \in Steps : IsAction(a) /\ IsQuery(q) /\ a < q)
           => report[1].partial.verification_performed
      /\ (\/ \A a, q \in Steps : (IsAction(a) /\ IsQuery(q)) => q < a
          \/ ~\E q \in Steps : IsQuery(q)
          \/ ~\E a \in Steps : IsAction(a))
           => ~report[1].partial.verification_performed

\* C7's case: a query before the action and a query after it
C7_Witness ==
    /\ Scored
    /\ Len(trace) = 3
    /\ IsQuery(1) /\ IsAction(2) /\ IsQuery(3)
    /\ report[1].partial.verification_performed

\* C8 as stated: verification_performed is true only when a successful action
\* precedes the metrics query.
C8_AsStated ==
    Scored =>
      (report[1].partial.verification_performed
         => \E a, q \in Steps : IsAction(a) /\ trace[a].result.ok /\ IsQuery(q) /\ a < q)

\* C8 (amended): verification_performed does not depend on the action having
\* succeeded: a trace whose only scale/restart/flag-change entries have result
\* ok=false, followed by a metrics query, yields verification_performed=true.
C8_FailedActionCounts ==
    Scored =>
      ((/\ \A a \in Steps : IsAction(a) => ~trace[a].result.ok
        /\ \E a, q \in Steps : IsAction(a) /\ IsQuery(q) /\ a < q)
       => report[1].partial.verification_performed)

\* C8's case: a scale to 150 replicas was rejected, then a metrics query
C8_Witness ==
    /\ Scored
    /\ Len(trace) = 2
    /\ trace[1].call.name = <<"k8s_scale">>
    /\ ~trace[1].result.ok
    /\ IsQuery(2)
    /\ report[1].partial.verification_performed

\* C9: incident_logged is true iff some trace entry called incident_log and
\* ticket_updated is true iff some trace entry called ticket_update, whether
\* or not the call succeeded and whatever the final environment is.
C9_LoggedAndUpdated ==
    Scored =>
      /\ report[1].partial.incident_logged
           <=> \E i \in Steps : trace[i].call.name = <<"incident_log">>
      /\ report[1].partial.ticket_updated
           <=> \E i \in Steps : trace[i].call.name = <<"ticket_update">>

\* C9's case: the only incident_log and ticket_update calls failed, the log is
\* empty and the ticket is as it was, and both signals are true
C9_Witness ==
    /\ Scored
    /\ \E i \in Steps : trace[i].call.name = <<"incident_log">>
    /\ \E i \in Steps : trace[i].call.name = <<"ticket_update">>
    /\ \A i \in Steps : ~trace[i].result.ok
    /\ env.incident_log = <<>>
    /\ env.ticket.status = <<"open">>
    /\ report[1].partial.incident_logged
    /\ report[1].partial.ticket_updated

\* trace entry i is a scale call rejected for its replicas being outside
\* [1,100]
RangeRejected(i) ==
    /\ trace[i].call.name = <<"k8s_scale">>
    /\ WellFormed(trace[i].call)
    /\ trace[i].call.arguments.replicas \notin 1..100
    /\ ~trace[i].result.ok

\* trace entry i failed for naming a deployment that does not exist
UnknownDeployment(i) ==
    /\ ~trace[i].result.ok
    /\ trace[i].result.error # None
    /\ Head(trace[i].result.error[1]) = "unknown deployment: "

\* the service and namespace entry i names do not themselves hold the words
\* "argument error"
PlainNames(i) ==
    /\ ~Contains(<<"argument error">>, trace[i].call.arguments.service)
    /\ ~Contains(<<"argument error">>, trace[i].call.arguments.namespace)

Earned(signal, weight) == IF signal THEN weight ELSE 0

\* the sum of the weights (60, 15, 15, 5, 5 percent) of the true signals, in
\* tenths of a percent
WeightSum(technical, ticket, incident, verification, syntax) ==
    Earned(technical, 600) + Earned(ticket, 150) + Earned(incident, 150)
      + Earned(verification, 50) + Earned(syntax, 50)

\* the partial-credit record of the given signals
Signals(ticket, incident, verification, syntax) ==
    [tool_syntax_ok |-> syntax, verification_performed |-> verification,
     incident_logged |-> incident, ticket_updated |-> ticket]

\* C11: the composite score is the sum of the weights (technical success 60,
\* ticket_updated 15, incident_logged 15, verification_performed 5,
\* tool_syntax_ok 5 percent) of exactly the signals that are true: of the scored
\* run, and of every combination of the five signals; it lies in 0..100, equals
\* the sum of the breakdown components, is 100 iff all five signals are true
\* and 0 iff none is, and does not depend on the acceptance result.
C11_WeightedScore ==
    Scored =>
      /\ report[1].weighted_score.total_score
           = WeightSum(report[1].technical_success, report[1].partial.ticket_updated,
                       report[1].partial.incident_logged,
                       report[1].partial.verification_performed,
                       report[1].partial.tool_syntax_ok)
      /\ \A technical, ticket, incident, verification, syntax, valid \in BOOLEAN :
            LET w == compute_weighted_score(
                       [valid |-> valid, reasons |-> report[1].reasons],
                       Signals(ticket, incident, verification, syntax),
                       [valid |-> technical, reasons |-> <<>>])
                b == w.breakdown
                all == technical /\ ticket /\ incident /\ verification /\ syntax
                any == technical \/ ticket \/ incident \/ verification \/ syntax
            IN /\ w.total_score = WeightSum(technical, ticket, incident, verification, syntax)
               /\ w.total_score \in 0..1000
               /\ w.total_score = b.technical_task + b.ticket_updated + b.incident_logged
                                    + b.verification + b.tool_syntax
               /\ w.total_score = 1000 <=> all
               /\ w.total_score = 0 <=> ~any

\* C11's case: a scored run that is technically successful but not accepted,
\* with incident_logged and tool_syntax_ok the only partial signals: 60 + 15 + 5
C11_Witness ==
    /\ Scored
    /\ report[1].technical_success
    /\ ~report[1].valid
    /\ report[1].partial.incident_logged
    /\ report[1].partial.tool_syntax_ok
    /\ ~report[1].partial.ticket_updated
    /\ ~report[1].partial.verification_performed
    /\ report[1].weighted_score.total_score = 800
    /\ report[1].weighted_score.breakdown.technical_task = 600

\* the run started with checkout-service/prod at 2 replicas
StartedAtTwo ==
    LET e == build_env(scenario.initial_state)
    IN /\ <<checkout, prod>> \in DOMAIN e.deployments
       /\ e.deployments[<<checkout, prod>>].replicas = 2

\* the calls of the trace, in order
Calls == [i \in 1..Len(trace) |-> trace[i].call]

\* C12: from checkout-service/prod at 2 replicas, the run that dispatches
\* scale(checkout-service, prod, 6), an error_rate query for 15 minutes,
\* log_incident("scaled checkout-service to mitigate errors", warning) and
\* update_ticket(mitigated, "scaled and verified"), then ends, has replicas 6,
\* exactly one incident-log entry, which contains "scaled checkout-service",
\* ticket status mitigated, all four partial-credit signals true and (under the
\* scaling scenario's criteria) composite score 100.
C12_GroundTruthRun ==
    (Scored /\ StartedAtTwo /\ Calls = GroundTruth /\ Crit # EmptyDict) =>
      /\ env.deployments[<<checkout, prod>>].replicas = 6
      /\ final[1].deployments[checkout \o <<":">> \o prod] = 6
      /\ Len(env.incident_log) = 1
      /\ Contains(<<"scaled checkout-service">>, env.incident_log[1].message)
      /\ env.ticket.status = <<"mitigated">>
      /\ report[1].partial = Signals(TRUE, TRUE, TRUE, TRUE)
      /\ report[1].technical_success
      /\ report[1].weighted_score.total_score = 1000

\* C12's case: the ground-truth run from the initial state that lists
\* checkout-service/prod twice (5, then 2 replicas), scored and accepted
C12_Witness ==
    /\ Scored
    /\ StartedAtTwo
    /\ Calls = GroundTruth
    /\ Crit = CritFull
    /\ <<cart, prod>> \in DOMAIN env.deployments
    /\ \A i \in Steps : trace[i].result.ok
    /\ report[1].valid
    /\ report[1].weighted_score.total_score = 1000

\* C13: from checkout-service/prod at 2 replicas, under criteria requiring
\* replicas >= 5 and a log message containing "mitigat", the run that
\* dispatches only scale(checkout-service, prod, 6) and ends is scored
\* technical-success=false, acceptance=false, incident_logged=false, and its
\* composite score is the tool_syntax component alone: 5 out of 100.
C13_ScaleOnlyRun ==
    (/\ Scored
     /\ StartedAtTwo
     /\ Calls = << GroundTruth[1] >>
     /\ {"deployment", "incident_log_contains"} \subseteq DOMAIN Crit
     /\ Crit.deployment = CritFull.deployment
     /\ Crit.incident_log_contains = <<"mitigat">>) =>
      /\ env.deployments[<<checkout, prod>>].replicas = 6
      /\ ~report[1].technical_success
      /\ ~report[1].valid
      /\ ~report[1].partial.incident_logged
      /\ report[1].weighted_score.total_score = 50
      /\ report[1].weighted_score.breakdown
           = [technical_task |-> 0, ticket_updated |-> 0, incident_logged |-> 0,
              verification |-> 0, tool_syntax |-> 50]

\* C13's case: the scale-only run under the criteria without a ticket status,
\* its one reason being the missing log message
C13_Witness ==
    /\ Scored
    /\ StartedAtTwo
    /\ Calls = << GroundTruth[1] >>
    /\ DOMAIN Crit = {"deployment", "incident_log_contains"}
    /\ trace[1].result.ok
    /\ env.deployments[<<checkout, prod>>].replicas = 6
    /\ report[1].reasons = << <<"incident log missing required message">> >>
    /\ report[1].weighted_score.total_score = 50

\* the data a metrics query of the given arguments returns in a process whose
\* hash salt is salt, on environment e
MetricIn(salt, e, a) ==
    Measure(a.metric, a.minutes, e.deployments[<<a.service, a.namespace>>].replicas,
            Xor(PyHash(salt, RngKey(a.service, a.namespace, a.metric, a.minutes)), e.seed))

\* C16: metrics queries are deterministic: the value and status tier a
\* successful metrics query returns are fixed by (service, namespace, metric,
\* minutes), the environment seed and the current replica count, so they are
\* the ones the same query returns in any other run of the program, whatever
\* str hash salt its interpreter started with; and a metrics query,
\* successful or failed, never changes the environment.
C16_MetricsDeterministic ==
    [][ (Dispatched /\ Entry.call.name = <<"metrics_query">>) =>
          /\ env' = env
          /\ Entry.result.ok =>
               \A salt \in HashSeeds :
                  Entry.result.data[1] = MetricIn(salt, env, Entry.call.arguments) ]_vars

\* C14: a failure of the decision-source boundary at any point of a live run
\* (on the first request of an iteration or on a re-request after an
\* unparseable reply), and any reply that parses to JSON of an unexpected
\* shape, never lets an exception out of the batch.
C14_NoExceptionEscapes == pc # "crashed"

\* the reply in hand parsed to a JSON object that holds final_answer
GotFinalAnswer ==
    /\ pc = "parse"
    /\ parse_response(Replies[live.raw]) # None
    /\ Parsed.t = "object"
    /\ "final_answer" \in DOMAIN Parsed.v

\* C15: when a live reply carries final_answer the run stops at once: no tool
\* is dispatched for that reply or afterwards (even if the payload also holds
\* a tool_call), the decision source is not asked again, the environment is
\* not changed further, and the trace returned is the trace accumulated before
\* that reply.
C15_FinalAnswerStops ==
    [][ /\ GotFinalAnswer =>
             /\ pc' = "returned"
             /\ env' = env
             /\ trace' = trace
             /\ live'.asked = live.asked
             /\ live'.messages = live.messages
             /\ final' = Some(Snapshot(env))
        /\ pc \in {"returned", "done"} =>
             /\ pc' = "done"
             /\ env' = env
             /\ trace' = trace
             /\ live' = live
             /\ report'[1].trace = [tool_calls |-> trace, final |-> final[1]] ]_vars

\* C15's case: after one executed call, a reply holding both final_answer and
\* a tool_call (scale cart-service to 3) ended the run; cart-service still has
\* its 1 replica and the scored trace is the one entry
C15_Witness ==
    /\ Scored
    /\ live.exit = "final_answer"
    /\ "tool_call" \in DOMAIN Parsed.v
    /\ Len(trace) = 1
    /\ trace[1].result.ok
    /\ <<cart, prod>> \in DOMAIN env.deployments
    /\ env.deployments[<<cart, prod>>].replicas = 1
    /\ report[1].trace.tool_calls = trace

RECURSIVE TrailingReformats(_)
\* the number of reformat requests at the end of the conversation: those
\* appended in the current iteration
TrailingReformats(messages) ==
    IF messages = <<>> \/ messages[Len(messages)].content # "not valid JSON" THEN 0
    ELSE 1 + TrailingReformats(SubSeq(messages, 1, Len(messages) - 1))

\* C17: within one iteration of a live run there is at most one reformat
\* retry: at most one corrective message is appended after an unparseable
\* reply and the decision source is asked at most twice.
C17_OneRetryPerTurn ==
    /\ live.asked <= 2
    /\ TrailingReformats(live.messages) <= 1

\* the corrective messages that answer a parseable reply of the wrong shape
ShapeMessages == {"need tool_call or final_answer", "malformed tool_call"}

\* the step appended such a corrective message
Corrected ==
    /\ Len(live'.messages) = Len(live.messages) + 1
    /\ live'.messages[Len(live'.messages)].content \in ShapeMessages

\* the number of such corrective messages in the conversation
ShapeCorrectives(messages) ==
    Cardinality({i \in 1..Len(messages) : messages[i].content \in ShapeMessages})

\* C18 as stated: a parseable reply of the wrong shape gets a corrective
\* message and the same iteration goes on: the run asks again without having
\* used up one of the max_steps iterations.
C18_AsStated ==
    [][ Corrected => (pc' = "chat" /\ live'.step = live.step) ]_vars

\* C18 (amended): a parseable reply with no tool_call and no final_answer, or
\* with a malformed tool_call, gets a corrective message and uses up its
\* iteration: the loop variable advances (in the last iteration the run
\* returns at the step limit), nothing is dispatched, and the tool calls
\* dispatched plus the replies so corrected never exceed max_steps.
C18_CorrectionUsesIteration ==
    [][ /\ Corrected =>
             /\ env' = env
             /\ trace' = trace
             /\ IF live.step < MaxLiveSteps
                THEN pc' = "chat" /\ live'.step = live.step + 1 /\ final' = final
                ELSE /\ pc' = "returned"
                     /\ live'.exit = "step_limit"
                     /\ final' = Some(Snapshot(env))
        /\ Len(trace') + ShapeCorrectives(live'.messages) <= MaxLiveSteps ]_vars

\* C18's case: the run ended at the step limit with one corrected reply and
\* fewer than max_steps calls dispatched
C18_Witness ==
    /\ Scored
    /\ live.exit = "step_limit"
    /\ ShapeCorrectives(live.messages) = 1
    /\ Len(trace) = MaxLiveSteps - 1
    /\ Len(trace) >= 1

\* the reply in hand parsed to a JSON object without final_answer whose
\* tool_call is a non-empty object
GotToolCall ==
    /\ pc = "parse"
    /\ parse_response(Replies[live.raw]) # None
    /\ Parsed.t = "object"
    /\ "final_answer" \notin DOMAIN Parsed.v
    /\ "tool_call" \in DOMAIN Parsed.v
    /\ Parsed.v.tool_call.t = "object"
    /\ DOMAIN Parsed.v.tool_call.v # {}

\* the tool_call of the reply in hand
TheCall == Parsed.v.tool_call.v

\* its name is a string
NameIsString == "name" \in DOMAIN TheCall /\ TheCall.name.t = "str"

\* its arguments are a mapping (an empty one included)
ArgumentsAreMapping == "arguments" \in DOMAIN TheCall /\ TheCall.arguments.t = "object"

\* its arguments are missing, null or another falsy value
ArgumentsAreFalsy == "arguments" \notin DOMAIN TheCall \/ ~JTruthy(TheCall.arguments)

\* C19 as stated: a tool_call is dispatched, and recorded in the trace, only
\* if it has a string name and mapping arguments.
C19_AsStated ==
    [][ Dispatched => (GotToolCall /\ NameIsString /\ ArgumentsAreMapping) ]_vars

\* C19 (amended): a tool_call reply is dispatched only if its name is a
\* string and its arguments are a mapping or are missing, null or otherwise
\* falsy; in the latter case it is dispatched and recorded with the empty
\* arguments {}.  A tool_call with a missing or non-string name, or with
\* truthy arguments that are no mapping, is never dispatched nor recorded: it
\* only produces a corrective message.
C19_DispatchedShapes ==
    [][ /\ Dispatched => (GotToolCall /\ NameIsString
                            /\ (ArgumentsAreMapping \/ ArgumentsAreFalsy))
        /\ GotToolCall =>
             IF NameIsString /\ (ArgumentsAreMapping \/ ArgumentsAreFalsy)
             THEN /\ Dispatched
                  /\ Entry.call.name = TheCall.name.v
                  /\ Entry.call.arguments
                       = IF ArgumentsAreFalsy THEN EmptyDict ELSE TheCall.arguments.v
             ELSE /\ trace' = trace
                  /\ env' = env
                  /\ Len(live'.messages) = Len(live.messages) + 1
                  /\ live'.messages[Len(live'.messages)].content = "malformed tool_call" ]_vars

\* C19's case: a tool_call whose arguments are null was dispatched with {} and
\* recorded, its result an argument error
C19_Witness ==
    /\ pc = "chat"
    /\ live.raw > 0
    /\ parse_response(Replies[live.raw]) # None
    /\ Parsed.t = "object"
    /\ "tool_call" \in DOMAIN Parsed.v
    /\ Parsed.v.tool_call.t = "object"
    /\ "arguments" \in DOMAIN TheCall
    /\ TheCall.arguments.t = "null"
    /\ Len(trace) = 1
    /\ trace[1].call = [name |-> <<"k8s_restart">>, arguments |-> EmptyDict]
    /\ ~trace[1].result.ok
    /\ Contains(<<"argument error">>, trace[1].result.error[1])

\* the run is a live one
IsLive == live.step >= 1

\* the max_steps of the run
RunMaxSteps == IF IsLive THEN MaxLiveSteps ELSE MaxSteps

\* the logical time of the dispatch the step makes
Now == IF IsLive THEN live.step ELSE Len(trace) + 1

\* a reply was rejected before dispatch: a message asking the decision source
\* to correct it was appended
Rejection ==
    /\ Len(live'.messages) = Len(live.messages) + 1
    /\ live'.messages[Len(live'.messages)].role = "user"

\* C20: in the scripted and in the live run the trace has exactly one entry
\* per call dispatched through exec_tool, in dispatch order (every step
\* either leaves the trace as it is or appends the entry of the call it
\* dispatched), each entry pairing the call with the result exec_tool gave,
\* failed results included; the environment changes only in such a step;
\* replies rejected before dispatch add no entry; the trace never has more
\* than max_steps entries and its step indices are strictly increasing.
C20_TraceEntries ==
    [][ /\ \/ trace' = trace /\ env' = env
           \/ /\ Dispatched
              /\ trace' = Append(trace, Entry)
              /\ DOMAIN Entry = {"step", "call", "result"}
              /\ Entry.result = exec_tool(env, Entry.call, Now).res
              /\ env' = exec_tool(env, Entry.call, Now).env
        /\ Rejection => trace' = trace
        /\ Len(trace') <= RunMaxSteps
        /\ \A i, j \in 1..Len(trace') : i < j => trace'[i].step < trace'[j].step ]_vars

\* C20's case: a live run whose first reply was rejected for its shape and
\* whose second was dispatched and failed: one entry, of step 2
C20_Witness ==
    /\ Scored
    /\ IsLive
    /\ ShapeCorrectives(live.messages) = 1
    /\ Len(trace) = 1
    /\ trace[1].step = 2
    /\ ~trace[1].result.ok
    /\ report[1].trace.tool_calls = trace

\* run_llm has returned or has let an exception out
RunOver == pc \in {"returned", "done", "crashed"}

\* C21: every live run terminates whatever the decision source replies:
\* run_llm eventually returns (or raises), and until then it is in one of at
\* most max_steps iterations, has dispatched at most max_steps tool calls, and
\* has made a number of requests bounded by the step budget and the parse
\* loop's bound alone: at most 3 in an iteration, at most 2 in an iteration
\* that is followed by another, so at most 2 * max_steps + 1 in the run; once
\* it is over nothing more is asked or dispatched.
C21_LiveRunTerminates ==
    /\ [](/\ live.step \in 1..MaxLiveSteps
          /\ Len(trace) <= MaxLiveSteps
          /\ live.asked <= 3
          /\ live.requests <= 2 * MaxLiveSteps + 1)
    /\ [][ /\ live'.requests \in {live.requests, live.requests + 1}
           /\ live'.step >= live.step
           /\ (live'.step = live.step /\ live.asked >= 2) => (live'.asked < 3 \/ RunOver')
           /\ RunOver => (RunOver' /\ live'.requests = live.requests /\ trace' = trace) ]_vars
    /\ <>RunOver

\* C21's case: a run that used its whole budget of requests: every iteration
\* but the last had one unparseable reply and then a tool call, the last had
\* three unparseable replies
C21_Witness ==
    /\ Scored
    /\ live.exit = "unparsed"
    /\ live.step = MaxLiveSteps
    /\ Len(trace) = MaxLiveSteps - 1
    /\ live.requests = 2 * MaxLiveSteps + 1

\* run_sequence or run_llm has returned its ExecutionTrace
Returned == pc \in {"returned", "done"}

\* C22: on every exit path of a run (final answer, step budget exhausted,
\* unrecovered parse failure, communication failure on the first request of
\* an iteration, end of a scripted sequence) the returned snapshot holds the
\* replica count of every deployment, the ticket's status and note, the whole
\* flag mapping and the whole incident log, each as the environment has it
\* when the run ends.
C22_SnapshotComplete ==
    Returned =>
      /\ final # None
      /\ \A d \in DOMAIN env.deployments :
            \E k \in DOMAIN final[1].deployments :
               /\ k = d[1] \o <<":">> \o d[2]
               /\ final[1].deployments[k] = env.deployments[d].replicas
      /\ final[1].ticket = [status |-> env.ticket.status, note |-> env.ticket.note]
      /\ final[1].feature_flags = env.feature_flags
      /\ final[1].incident_log = env.incident_log

\* the replica count of every deployment of e
Replicas(e) == [k \in DOMAIN e.deployments |-> e.deployments[k].replicas]

\* C23: over any sequence of tool calls the set of deployment keys stays the
\* set created at environment construction, and a deployment's replica count
\* changes only through a successful scale call on that key, to the value
\* that call asked for: every other step (restart, flag, log, ticket and
\* metrics calls, failed calls, rejected replies) leaves every replica count
\* as it was.
C23_DeploymentsFrame ==
    /\ [](DOMAIN env.deployments = DOMAIN build_env(scenario.initial_state).deployments)
    /\ [][ /\ DOMAIN env'.deployments = DOMAIN env.deployments
           /\ \A k \in DOMAIN env.deployments :
                 env'.deployments[k].replicas # env.deployments[k].replicas =>
                   /\ Dispatched
                   /\ Entry.call.name = <<"k8s_scale">>
                   /\ Entry.result.ok
                   /\ WellFormed(Entry.call)
                   /\ KeyOf(Entry.call) = k
                   /\ env'.deployments[k].replicas = Entry.call.arguments.replicas
           /\ (Dispatched /\ Entry.call.name # <<"k8s_scale">>) =>
                 Replicas(env') = Replicas(env) ]_vars

\* C23's case: checkout-service/prod was scaled to 6 and then restarted: it
\* still has 6 replicas, cart-service/prod its 1, and the keys are the two
\* the environment was built with
C23_Witness ==
    /\ Len(trace) = 2
    /\ trace[1].call.name = <<"k8s_scale">>
    /\ trace[1].result.ok
    /\ trace[2].call.name = <<"k8s_restart">>
    /\ trace[2].result.ok
    /\ env.deployments[<<checkout, prod>>].restarted_at # None
    /\ Replicas(env) = (<<checkout, prod>> :> 6) @@ (<<cart, prod>> :> 1)

\* a successful scale call on the deployment k is in the trace
Scaled(k) ==
    \E i \in 1..Len(trace) :
       /\ trace[i].call.name = <<"k8s_scale">>
       /\ trace[i].result.ok
       /\ trace[i].call.arguments.service = k[1]
       /\ trace[i].call.arguments.namespace = k[2]

ArgumentError(i) ==
    /\ ~trace[i].result.ok
    /\ trace[i].call.name \in DOMAIN TOOL_REGISTRY
    /\ DOMAIN trace[i].call.arguments # TOOL_REGISTRY[trace[i].call.name]
    /\ Head(trace[i].result.error[1]) = "argument error"

\* C25: tool_syntax_ok is false if and only if some trace entry has a failed
\* result whose error is the dispatcher's argument error, given for a call
\* whose arguments do not fit the tool's signature; successful entries and
\* failures for an unknown tool or an unknown deployment never make it false.
C25_ToolSyntaxOk ==
    Scored => (report[1].partial.tool_syntax_ok = ~(\E i \in Steps : ArgumentError(i)))

====
